---------------------------- MODULE Spec2Model ----------------------------
(***************************************************************************)
(* A model of the CHomP algebra core: the cyclic rings Z<p>, the free      *)
(* modules (chains) built on maps and sets, and the boundary / coboundary  *)
(* operators of the cubical complex.                                       *)
(*                                                                         *)
(* Seven specifications share the module. SpecRing exercises the ring      *)
(* Z<p> of src/chomp/chomp/algebra/cyclic.hpp, SpecChain the module        *)
(* classes of algebra/modules.hpp with the free operators of               *)
(* algebra/algebra.hpp, SpecCube the CubicalComplex of                     *)
(* complexes/cubical.hpp with the free functions of complexes.hpp, and     *)
(* SpecLinear the linear_apply of algebra/algebra.hpp with a LinearMap,    *)
(* SpecCache the LRUCache of util/cache.hpp, and SpecCached a complex      *)
(* whose grading is a CachedGradingWrapper of complexes/grading.hpp (its   *)
(* state is the complex of SpecCube and a cache of SpecCache).  SpecMove   *)
(* hands one element of a module type to the move overloads of += and -=   *)
(* of another.                                                             *)
(* Each specification holds the variables of the others at their initial   *)
(* values.                                                                 *)
(***************************************************************************)
EXTENDS Integers, Sequences, FiniteSets, TLC

VARIABLES
    zp,      \* ring: the template argument p of Z<p>
    za,      \* ring: object a, [n |-> constructor argument, v |-> stored member]
    zb,      \* ring: object b, the same
    zr,      \* ring: the object the arithmetic operators write
    zlast,   \* ring: the last operation, its operands and the integers it computed
    mtype,   \* chain: the module type, [backing |-> "map" or "set", p |-> modulus]
    chain,   \* chain: the member `cells` (a map cell -> coefficient, or a set)
    clast,   \* chain: the last operation, its arguments and `cells` before it
    cparity, \* chain: history, the cells of a set-backed element that were
             \*        inserted with a nonzero coefficient an odd number of
             \*        times since the last clear
    kx,      \* cube: the CubicalComplex (bounds, chain type, grading function)
    kop,     \* cube: the cell-level operator last called
    kcell,   \* cube: its cell argument
    kcond,   \* cube: its predicate argument
    kchainop,\* cube: the chain overload applied to its result, or "none"
    kinput,  \* cube: the chain argument of that overload
    kresult, \* cube: the chain returned by the last call
    lmodule, \* linear: the module type M of linear_apply<M, I>
    lelem,   \* linear: the element handed to linear_apply
    lfunc,   \* linear: the LinearMap handed over, cell -> sequence of pairs
    lcalled, \* linear: the call made, with a copy of its element argument
    lresult, \* linear: the element linear_apply returned
    lru,     \* cache: the LRUCache objects alive, cache id -> members
    lruhist, \* cache: history, per cache the keys by last access and by
             \*        insertion
    lrulast  \* cache: the last operation, its arguments, what it returned
             \*        and the caches before it

ringVars == <<zp, za, zb, zr, zlast>>

chainVars == <<mtype, chain, clast, cparity>>

cubeVars == <<kx, kop, kcell, kcond, kchainop, kinput, kresult>>

linearVars == <<lmodule, lelem, lfunc, lcalled, lresult>>

cacheVars == <<lru, lruhist, lrulast>>

vars == <<ringVars, chainVars, cubeVars, linearVars, cacheVars>>

\* Frame conditions: a step of one component leaves the others alone.
RingOnly == UNCHANGED <<chainVars, cubeVars, linearVars, cacheVars>>

ChainOnly == UNCHANGED <<ringVars, cubeVars, linearVars, cacheVars>>

CubeOnly == UNCHANGED <<ringVars, chainVars, linearVars, cacheVars>>

LinearOnly == UNCHANGED <<ringVars, chainVars, cubeVars, cacheVars>>

CacheOnly == UNCHANGED <<ringVars, chainVars, cubeVars, linearVars>>

(***************************************************************************)
(* Bounds of the model.                                                    *)
(***************************************************************************)
\* Largest modulus p instantiated; moduli range over 2..MaxModulus.
MaxModulus == 4

\* Constructor arguments range over -MaxInt..MaxInt.
MaxInt == 8

\* Basis elements of the free modules are 1..NumCells.
NumCells == 2

\* Orthant coordinates of the cubical complexes range over 0..MaxCoord.
MaxCoord == 2

\* The keys of the caches are 1..NumKeys.
NumKeys == 3

Moduli == 2 .. MaxModulus
Ints == (0 - MaxInt) .. MaxInt

(***************************************************************************)
(* C++ integer arithmetic.                                                 *)
(***************************************************************************)
\* The % operator on int truncates towards zero: the result has the sign of
\* the dividend.
CRem(n, d) == IF n >= 0 THEN n % d ELSE 0 - ((0 - n) % d)

\* n & 1U: n is converted to unsigned (its two's-complement bit pattern) and
\* masked with 1, whose bits above bit 0 are all clear.  Only the low half
\* word of the pattern is computed here; the mask discards the rest.
LowHalfWord(n) == n % (2 ^ 16)

AndOne(n) == LowHalfWord(n) % 2

Last(s) == s[Len(s)]

(***************************************************************************)
(* Z<p>, the primary template: the member `value` is an int.               *)
(***************************************************************************)
\* Z(int n) : value(n >= 0 ? n % p : n % p + p)
ZpCtor(p, n) == IF n >= 0 THEN CRem(n, p) ELSE CRem(n, p) + p

\* operator-(): return Z(p - value); the integers computed, last the member.
ZpNegateSteps(p, v) == <<p - v, ZpCtor(p, p - v)>>

\* Mutant: the sum is never brought back below p.
ZpPlusAssignNoReduce(p, v, r) == <<v + r>>

\* operator+=: value += rhs.value; if (value >= p) value -= p;
ZpPlusAssignSteps(p, v, r) ==
    LET s == v + r IN IF s >= p THEN <<s, s - p>> ELSE <<s>>

\* operator-=: value += (p - rhs.value); if (value >= p) value -= p;
ZpMinusAssignSteps(p, v, r) ==
    LET d == p - r
        s == v + d
    IN  IF s >= p THEN <<d, s, s - p>> ELSE <<d, s>>

\* operator*=: value = (value * rhs.value) % p;
ZpTimesAssignSteps(p, v, r) == <<v * r, CRem(v * r, p)>>

(***************************************************************************)
(* Z<2>, the specialization: the member `odd` is a bool.                   *)
(***************************************************************************)
\* Z(int n) : odd(n & 1U)
Z2Ctor(n) == AndOne(n) # 0

\* rep(): return odd; (bool to int)
Z2Rep(odd) == IF odd THEN 1 ELSE 0

\* operator-(): return *this;
Z2Negate(odd) == odd

\* Mutant: addition as OR instead of XOR.
Z2PlusAssignOr(odd, r) == odd \/ r

\* operator+=: odd = rhs.odd ? !odd : odd;
Z2PlusAssign(odd, r) == IF r THEN ~odd ELSE odd

\* operator-=: odd = rhs.odd ? !odd : odd;
Z2MinusAssign(odd, r) == IF r THEN ~odd ELSE odd

\* operator*=: odd = rhs.odd ? odd : false;
Z2TimesAssign(odd, r) == IF r THEN odd ELSE FALSE

(***************************************************************************)
(* Z<p> as instantiated: the specialization for p = 2, the primary         *)
(* template otherwise.  A ring value is the stored member.                 *)
(***************************************************************************)
Z(p, n) == IF p = 2 THEN Z2Ctor(n) ELSE ZpCtor(p, n)

rep(p, z) == IF p = 2 THEN Z2Rep(z) ELSE z

ZEquals(p, a, b) == a = b

ZNegate(p, a) == IF p = 2 THEN Z2Negate(a) ELSE Last(ZpNegateSteps(p, a))

ZPlusAssign(p, a, b) ==
    IF p = 2 THEN Z2PlusAssign(a, b) ELSE Last(ZpPlusAssignSteps(p, a, b))

ZMinusAssign(p, a, b) ==
    IF p = 2 THEN Z2MinusAssign(a, b) ELSE Last(ZpMinusAssignSteps(p, a, b))

ZTimesAssign(p, a, b) ==
    IF p = 2 THEN Z2TimesAssign(a, b) ELSE Last(ZpTimesAssignSteps(p, a, b))

\* The binary operators copy *this and apply the compound assignment.
ZPlus(p, a, b) == ZPlusAssign(p, a, b)

ZMinus(p, a, b) == ZMinusAssign(p, a, b)

ZTimes(p, a, b) == ZTimesAssign(p, a, b)

\* zero<R>() and one<R>(): static_cast<R>(0) and static_cast<R>(1).
zero(p) == Z(p, 0)

one(p) == Z(p, 1)

\* The integers an operator computes on the way (none for the bool of Z<2>).
ZSteps(p, op, a, b) ==
    IF p = 2 THEN <<>>
    ELSE CASE op = "neg" -> ZpNegateSteps(p, a)
           [] op \in {"plus", "plus_assign"} -> ZpPlusAssignSteps(p, a, b)
           [] op \in {"minus", "minus_assign"} -> ZpMinusAssignSteps(p, a, b)
           [] op \in {"times", "times_assign"} -> ZpTimesAssignSteps(p, a, b)
           [] OTHER -> <<>>

(***************************************************************************)
(* SpecRing: objects a and b are constructed from ints, the operators      *)
(* write zr, and zlast remembers the last operation.                       *)
(***************************************************************************)
ZLast(op, n, x, y, eq, steps) ==
    [op |-> op, n |-> n, x |-> x, y |-> y, eq |-> eq, steps |-> steps]

RingStart ==
    /\ zp \in Moduli
    /\ za = [n |-> 0, v |-> Z(zp, 0)]
    /\ zb = [n |-> 0, v |-> Z(zp, 0)]
    /\ zr = Z(zp, 0)
    /\ zlast = ZLast("init", 0, Z(zp, 0), Z(zp, 0), TRUE, <<>>)

\* The ring component when another specification runs.
RingIdle ==
    /\ zp = 2
    /\ za = [n |-> 0, v |-> Z(2, 0)]
    /\ zb = [n |-> 0, v |-> Z(2, 0)]
    /\ zr = Z(2, 0)
    /\ zlast = ZLast("init", 0, Z(2, 0), Z(2, 0), TRUE, <<>>)

ConstructA ==
    \E n \in Ints :
        /\ za' = [n |-> n, v |-> Z(zp, n)]
        /\ zlast' = ZLast("ctor_a", n, Z(zp, n), Z(zp, n), TRUE, <<>>)
        /\ UNCHANGED <<zp, zb, zr>>
        /\ RingOnly

ConstructB ==
    \E n \in Ints :
        /\ zb' = [n |-> n, v |-> Z(zp, n)]
        /\ zlast' = ZLast("ctor_b", n, Z(zp, n), Z(zp, n), TRUE, <<>>)
        /\ UNCHANGED <<zp, za, zr>>
        /\ RingOnly

\* a == b
Equals ==
    /\ zlast' = ZLast("eq", 0, za.v, zb.v, ZEquals(zp, za.v, zb.v), <<>>)
    /\ UNCHANGED <<zp, za, zb, zr>>
    /\ RingOnly

\* r = -a
Negate ==
    /\ zr' = ZNegate(zp, za.v)
    /\ zlast' = ZLast("neg", 0, za.v, za.v, TRUE, ZSteps(zp, "neg", za.v, za.v))
    /\ UNCHANGED <<zp, za, zb>>
    /\ RingOnly

\* r = a + b
Plus ==
    /\ zr' = ZPlus(zp, za.v, zb.v)
    /\ zlast' = ZLast("plus", 0, za.v, zb.v, TRUE, ZSteps(zp, "plus", za.v, zb.v))
    /\ UNCHANGED <<zp, za, zb>>
    /\ RingOnly

\* r = a - b
Minus ==
    /\ zr' = ZMinus(zp, za.v, zb.v)
    /\ zlast' = ZLast("minus", 0, za.v, zb.v, TRUE, ZSteps(zp, "minus", za.v, zb.v))
    /\ UNCHANGED <<zp, za, zb>>
    /\ RingOnly

\* r = a * b
Times ==
    /\ zr' = ZTimes(zp, za.v, zb.v)
    /\ zlast' = ZLast("times", 0, za.v, zb.v, TRUE, ZSteps(zp, "times", za.v, zb.v))
    /\ UNCHANGED <<zp, za, zb>>
    /\ RingOnly

\* r += b
PlusAssign ==
    /\ zr' = ZPlusAssign(zp, zr, zb.v)
    /\ zlast' = ZLast("plus_assign", 0, zr, zb.v, TRUE,
                      ZSteps(zp, "plus_assign", zr, zb.v))
    /\ UNCHANGED <<zp, za, zb>>
    /\ RingOnly

\* r -= b
MinusAssign ==
    /\ zr' = ZMinusAssign(zp, zr, zb.v)
    /\ zlast' = ZLast("minus_assign", 0, zr, zb.v, TRUE,
                      ZSteps(zp, "minus_assign", zr, zb.v))
    /\ UNCHANGED <<zp, za, zb>>
    /\ RingOnly

\* r *= b
TimesAssign ==
    /\ zr' = ZTimesAssign(zp, zr, zb.v)
    /\ zlast' = ZLast("times_assign", 0, zr, zb.v, TRUE,
                      ZSteps(zp, "times_assign", zr, zb.v))
    /\ UNCHANGED <<zp, za, zb>>
    /\ RingOnly

RingNext ==
    \/ ConstructA
    \/ ConstructB
    \/ Equals
    \/ Negate
    \/ Plus
    \/ Minus
    \/ Times
    \/ PlusAssign
    \/ MinusAssign
    \/ TimesAssign


(***************************************************************************)
(* AssociativeModule<T, R, MapType>: `cells` maps a basis element to its   *)
(* coefficient.  A map is a function whose domain is the set of keys.      *)
(***************************************************************************)
Basis == 1 .. NumCells

EmptyMap == [x \in {} |-> 0]

\* operator[]: find_result == cells.cend() ? zero<R>() : find_result->second
AssocAt(p, cells, cell) ==
    IF cell \in DOMAIN cells THEN cells[cell] ELSE zero(p)

\* begin()..end(): KeyIterator over the entries of the map.
AssocCells(cells) == DOMAIN cells

\* Mutant: the entry is kept when the coefficients sum to zero.
AssocInsertNoErase(p, cells, cell, coef) ==
    IF ZEquals(p, coef, zero(p)) THEN cells
    ELSE IF cell \notin DOMAIN cells
         THEN [x \in DOMAIN cells \cup {cell} |->
                   IF x = cell THEN coef ELSE cells[x]]
         ELSE [cells EXCEPT ![cell] = ZPlusAssign(p, cells[cell], coef)]

\* Mutant: the new coefficient replaces the stored one.
AssocInsertOverwrite(p, cells, cell, coef) ==
    IF ZEquals(p, coef, zero(p)) THEN cells
    ELSE [x \in DOMAIN cells \cup {cell} |->
              IF x = cell THEN coef ELSE cells[x]]

\* insert(cell, coef): nothing for a zero coefficient; cells.insert of the
\* pair; when the key was present, second += coef and erase on zero.
AssocInsert(p, cells, cell, coef) ==
    IF ZEquals(p, coef, zero(p)) THEN cells
    ELSE IF cell \notin DOMAIN cells
         THEN [x \in DOMAIN cells \cup {cell} |->
                   IF x = cell THEN coef ELSE cells[x]]
         ELSE LET sum == ZPlusAssign(p, cells[cell], coef)
              IN  IF ZEquals(p, sum, zero(p))
                  THEN [x \in DOMAIN cells \ {cell} |-> cells[x]]
                  ELSE [cells EXCEPT ![cell] = sum]

(***************************************************************************)
(* UniqueModule<T, R, SetType>: `cells` is the set of basis elements with  *)
(* coefficient one; R is a binary ring.                                    *)
(***************************************************************************)
\* operator[]: cells.count(cell) == 0 ? zero<R>() : one<R>()
UniqueAt(p, cells, cell) == IF cell \notin cells THEN zero(p) ELSE one(p)

\* begin()..end(): the iterators of the set.
UniqueCells(cells) == cells

\* Mutant: inserting a present cell leaves it present.
UniqueInsertNoToggle(p, cells, cell, coef) ==
    IF ZEquals(p, coef, zero(p)) THEN cells ELSE cells \cup {cell}

\* insert(cell, coef): nothing for a zero coefficient; cells.insert(cell),
\* and erase when the element was present.
UniqueInsert(p, cells, cell, coef) ==
    IF ZEquals(p, coef, zero(p)) THEN cells
    ELSE IF cell \notin cells THEN cells \cup {cell} ELSE cells \ {cell}

(***************************************************************************)
(* The Module interface, as the templates of algebra.hpp see it: M is the  *)
(* module type, ch the `cells` member of an element of it.                 *)
(***************************************************************************)
\* The moduli the module types are instantiated with: the binary ring, a
\* prime field and a ring with zero divisors.
ChainModuli == {2, 3, 4}

MapTypes == {[backing |-> "map", p |-> q] : q \in ChainModuli}

\* UniqueModule requires BinaryRing<R>: one<R>() + one<R>() == zero<R>().
SetTypes == {[backing |-> "set", p |-> q] :
                 q \in {m \in ChainModuli :
                           ZEquals(m, ZPlus(m, one(m), one(m)), zero(m))}}

ModuleTypes == MapTypes \cup SetTypes

\* M(): the default-constructed element.
ModZero(M) == IF M.backing = "set" THEN {} ELSE EmptyMap

ModAt(M, ch, cell) ==
    IF M.backing = "set" THEN UniqueAt(M.p, ch, cell) ELSE AssocAt(M.p, ch, cell)

ModCells(M, ch) ==
    IF M.backing = "set" THEN UniqueCells(ch) ELSE AssocCells(ch)

ModInsert(M, ch, cell, coef) ==
    IF M.backing = "set" THEN UniqueInsert(M.p, ch, cell, coef)
    ELSE AssocInsert(M.p, ch, cell, coef)

\* clear(): cells.clear()
ModClear(M, ch) == ModZero(M)

\* operator==: cells == rhs.cells
ModEquals(M, a, b) == a = b

\* The values of the ring R = Z<p> with representative in [0, p-1].
RingValues(p) == {Z(p, n) : n \in 0 .. (p - 1)}

\* The objects of type R = Z<p> a caller can hand over: whatever the
\* constructor makes of an int.
CoefInputs(p) == {Z(p, n) : n \in Ints}

\* Every element of the module type M over Basis holding such coefficients.
AllChains(M) ==
    IF M.backing = "set" THEN SUBSET Basis
    ELSE UNION {[S -> {c \in CoefInputs(M.p) : ~ZEquals(M.p, c, zero(M.p))}] :
                    S \in SUBSET Basis}

\* The next element a loop over a container visits (std::map and std::set
\* iterate in key order; the result of the loops below does not depend on
\* the order an unordered container picks).
NextCell(todo) == CHOOSE c \in todo : \A d \in todo : c <= d

RECURSIVE PlusAssignLoop(_, _, _, _)
\* for (cell : rhs) lhs.insert(cell, rhs[cell]);
PlusAssignLoop(M, lhs, rhs, todo) ==
    IF todo = {} THEN lhs
    ELSE LET cell == NextCell(todo)
         IN  PlusAssignLoop(M, ModInsert(M, lhs, cell, ModAt(M, rhs, cell)),
                            rhs, todo \ {cell})

\* operator+=(M& lhs, const M& rhs)
ModPlusAssign(M, lhs, rhs) == PlusAssignLoop(M, lhs, rhs, ModCells(M, rhs))

RECURSIVE MinusAssignLoop(_, _, _, _)
\* for (cell : rhs) lhs.insert(cell, -rhs[cell]);
MinusAssignLoop(M, lhs, rhs, todo) ==
    IF todo = {} THEN lhs
    ELSE LET cell == NextCell(todo)
         IN  MinusAssignLoop(M,
                 ModInsert(M, lhs, cell, ZNegate(M.p, ModAt(M, rhs, cell))),
                 rhs, todo \ {cell})

\* operator-=(M& lhs, const M& rhs)
ModMinusAssign(M, lhs, rhs) == MinusAssignLoop(M, lhs, rhs, ModCells(M, rhs))

\* operator+(lhs, rhs): result(lhs); result += rhs; return result;
ModPlus(M, lhs, rhs) == ModPlusAssign(M, lhs, rhs)

\* operator-(lhs, rhs): result(lhs); result -= rhs; return result;
ModMinus(M, lhs, rhs) == ModMinusAssign(M, lhs, rhs)

\* One turn of the loop of AssociativeModule::operator+=(AssociativeModule&&):
\* nh = rhs.cells.extract(it++) takes the node of `cell` out of rhs.cells,
\* insert(std::move(nh.key()), std::move(nh.mapped())) adds it to this.
AssocMovePlusBody(p, lhs, rhs, cell) ==
    [lhs |-> AssocInsert(p, lhs, cell, rhs[cell]),
     rhs |-> [c \in (DOMAIN rhs) \ {cell} |-> rhs[c]]]

\* Mutant: the extracted coefficient is inserted as it is, not negated.
AssocMoveMinusBodyNoNegate(p, lhs, rhs, cell) ==
    [lhs |-> AssocInsert(p, lhs, cell, rhs[cell]),
     rhs |-> [c \in (DOMAIN rhs) \ {cell} |-> rhs[c]]]

\* One turn of the loop of AssociativeModule::operator-=(AssociativeModule&&):
\* insert(std::move(nh.key()), -std::move(nh.mapped())).
AssocMoveMinusBody(p, lhs, rhs, cell) ==
    [lhs |-> AssocInsert(p, lhs, cell, ZNegate(p, rhs[cell])),
     rhs |-> [c \in (DOMAIN rhs) \ {cell} |-> rhs[c]]]

\* One turn of the loop of UniqueModule::operator+=(UniqueModule&&) and of
\* UniqueModule::operator-=(UniqueModule&&), whose bodies are the same:
\* nh = rhs.cells.extract(it++); insert(std::move(nh.value()), one<R>()).
UniqueMoveBody(p, lhs, rhs, cell) ==
    [lhs |-> UniqueInsert(p, lhs, cell, one(p)), rhs |-> rhs \ {cell}]

RECURSIVE MoveLoop(_, _, _, _)
\* for (it = rhs.cells.cbegin(); it != rhs.cells.cend();) { ... }: the loop
\* runs until rhs.cells holds no node; it returns both objects.
MoveLoop(M, op, lhs, rhs) ==
    IF ModCells(M, rhs) = {} THEN [lhs |-> lhs, rhs |-> rhs]
    ELSE LET cell == NextCell(ModCells(M, rhs))
             turn == CASE M.backing = "set" ->
                              UniqueMoveBody(M.p, lhs, rhs, cell)
                       [] op = "plus" ->
                              AssocMovePlusBody(M.p, lhs, rhs, cell)
                       [] OTHER ->
                              AssocMoveMinusBody(M.p, lhs, rhs, cell)
         IN  MoveLoop(M, op, turn.lhs, turn.rhs)

\* lhs += std::move(rhs): the member overload taking M&& is chosen over the
\* free operator+=(M&, const M&).
ModMovePlusAssign(M, lhs, rhs) == MoveLoop(M, "plus", lhs, rhs)

\* lhs -= std::move(rhs)
ModMoveMinusAssign(M, lhs, rhs) == MoveLoop(M, "minus", lhs, rhs)

\* Mutant: the scalar itself, not the scalar less one, multiplies the
\* coefficient that insert adds.
TimesAssignBodyWholeScalar(M, lhs, rhs, cell) ==
    ModInsert(M, lhs, cell, ZTimes(M.p, rhs, ModAt(M, lhs, cell)))

\* The body of the loop of operator*=:
\* lhs.insert(cell, (rhs - one<R>()) * lhs[cell]);
TimesAssignBody(M, lhs, rhs, cell) ==
    ModInsert(M, lhs, cell,
              ZTimes(M.p, ZMinus(M.p, rhs, one(M.p)), ModAt(M, lhs, cell)))

RECURSIVE TimesAssignLoop(_, _, _, _)
\* The loop body run for the cells of todo; each run touches its own entry.
TimesAssignLoop(M, lhs, rhs, todo) ==
    IF todo = {} THEN lhs
    ELSE LET cell == NextCell(todo)
         IN  TimesAssignLoop(M, TimesAssignBody(M, lhs, rhs, cell), rhs,
                             todo \ {cell})

\* The cells whose entry the loop body erases: the product with rhs is zero.
TimesAssignErased(M, lhs, rhs) ==
    {cell \in ModCells(M, lhs) :
        cell \notin ModCells(M, TimesAssignBody(M, lhs, rhs, cell))}

\* operator*=(M& lhs, const R& rhs): clear for a zero scalar; otherwise the
\* range-for over lhs.  The set of elements lhs may be left as: when the body
\* erases the entry the loop's iterator refers to, incrementing that iterator
\* is undefined; the loop then either goes on to any of the remaining
\* entries or ends, so the body has run for some set of cells that holds an
\* erased one.  Without an erasure it has run for every cell.
ModTimesAssign(M, lhs, rhs) ==
    IF ZEquals(M.p, rhs, zero(M.p)) THEN {ModClear(M, lhs)}
    ELSE LET all == ModCells(M, lhs)
             erased == TimesAssignErased(M, lhs, rhs)
         IN  IF erased = {} THEN {TimesAssignLoop(M, lhs, rhs, all)}
             ELSE {TimesAssignLoop(M, lhs, rhs, S) :
                       S \in {T \in SUBSET all : T \cap erased # {}}}

\* operator*(coef, elem) and operator*(elem, coef): result(elem);
\* result *= coef; return result;
ModTimes(M, coef, elem) == ModTimesAssign(M, elem, coef)

\* operator-(elem): result(elem); result *= -one<R>();
ModNegate(M, elem) == ModTimesAssign(M, elem, ZNegate(M.p, one(M.p)))

\* The history of the calls of UniqueModule::insert: `inserted` holds the
\* cells handed to insert with a coefficient that is not zero<R>(); each
\* changes the parity of its count.  Nothing is recorded for a map-backed
\* element.
CountInserts(M, parity, inserted) ==
    IF M.backing = "set"
    THEN (parity \ inserted) \cup (inserted \ parity)
    ELSE parity

\* The cells operator+= hands to insert with a nonzero coefficient.
PlusAssignInserted(M, rhs) ==
    {cell \in ModCells(M, rhs) :
        ~ZEquals(M.p, ModAt(M, rhs, cell), zero(M.p))}

\* The cells operator-= hands to insert with a nonzero coefficient.
MinusAssignInserted(M, rhs) ==
    {cell \in ModCells(M, rhs) :
        ~ZEquals(M.p, ZNegate(M.p, ModAt(M, rhs, cell)), zero(M.p))}

\* The cells operator*= hands to insert with a nonzero coefficient.
TimesAssignInserted(M, lhs, rhs) ==
    {cell \in ModCells(M, lhs) :
        ~ZEquals(M.p,
                 ZTimes(M.p, ZMinus(M.p, rhs, one(M.p)), ModAt(M, lhs, cell)),
                 zero(M.p))}

(***************************************************************************)
(* SpecChain: one element of a module type, changed by the operations of   *)
(* the Module interface.  clast remembers the last one.                    *)
(***************************************************************************)
CLast(op, cell, coef, pre, rhs) ==
    [op |-> op, cell |-> cell, coef |-> coef, pre |-> pre, rhs |-> rhs]

ChainStart ==
    /\ mtype \in ModuleTypes
    /\ chain = ModZero(mtype)
    /\ clast = CLast("init", 1, zero(mtype.p), ModZero(mtype), ModZero(mtype))
    /\ cparity = {}

\* The chain component when another specification runs.
ChainIdle ==
    /\ mtype = [backing |-> "set", p |-> 2]
    /\ chain = {}
    /\ clast = CLast("init", 1, zero(2), {}, {})
    /\ cparity = {}

\* elem.insert(cell, coef)
Insert ==
    \E cell \in Basis, coef \in CoefInputs(mtype.p) :
        /\ chain' = ModInsert(mtype, chain, cell, coef)
        /\ clast' = CLast("insert", cell, coef, chain, ModZero(mtype))
        /\ cparity' = CountInserts(mtype, cparity,
                           IF ZEquals(mtype.p, coef, zero(mtype.p))
                           THEN {} ELSE {cell})
        /\ UNCHANGED mtype
        /\ ChainOnly

\* elem.clear()
Clear ==
    /\ chain' = ModClear(mtype, chain)
    /\ clast' = CLast("clear", 1, zero(mtype.p), chain, ModZero(mtype))
    /\ cparity' = {}
    /\ UNCHANGED mtype
    /\ ChainOnly

\* elem += rhs
ChainPlusAssign ==
    \E rhs \in AllChains(mtype) :
        /\ chain' = ModPlusAssign(mtype, chain, rhs)
        /\ clast' = CLast("plus_assign", 1, zero(mtype.p), chain, rhs)
        /\ cparity' = CountInserts(mtype, cparity,
                                   PlusAssignInserted(mtype, rhs))
        /\ UNCHANGED mtype
        /\ ChainOnly

\* elem -= rhs
ChainMinusAssign ==
    \E rhs \in AllChains(mtype) :
        /\ chain' = ModMinusAssign(mtype, chain, rhs)
        /\ clast' = CLast("minus_assign", 1, zero(mtype.p), chain, rhs)
        /\ cparity' = CountInserts(mtype, cparity,
                                   MinusAssignInserted(mtype, rhs))
        /\ UNCHANGED mtype
        /\ ChainOnly

\* elem *= coef
ChainTimesAssign ==
    \E coef \in CoefInputs(mtype.p) :
        /\ chain' \in ModTimesAssign(mtype, chain, coef)
        /\ clast' = CLast("times_assign", 1, coef, chain, ModZero(mtype))
        /\ cparity' = IF ZEquals(mtype.p, coef, zero(mtype.p)) THEN {}
                      ELSE CountInserts(mtype, cparity,
                               TimesAssignInserted(mtype, chain, coef))
        /\ UNCHANGED mtype
        /\ ChainOnly

\* elem = -elem
ChainNegate ==
    /\ chain' \in ModNegate(mtype, chain)
    /\ clast' = CLast("negate", 1, zero(mtype.p), chain, ModZero(mtype))
    /\ cparity' = CountInserts(mtype, cparity,
                       TimesAssignInserted(mtype, chain,
                                           ZNegate(mtype.p, one(mtype.p))))
    /\ UNCHANGED mtype
    /\ ChainOnly

ChainNext ==
    \/ Insert
    \/ Clear
    \/ ChainPlusAssign
    \/ ChainMinusAssign
    \/ ChainTimesAssign
    \/ ChainNegate

(***************************************************************************)
(* SpecMove: two elements of a module type, lhs (the variable chain) and   *)
(* rhs (clast.rhs), two distinct objects; one of the move overloads is     *)
(* called once.  clast keeps both objects as they were before the call.    *)
(***************************************************************************)
MLast(op, pre, arg, rhs) == [op |-> op, pre |-> pre, arg |-> arg, rhs |-> rhs]

MoveStart ==
    /\ mtype \in ModuleTypes
    /\ chain \in AllChains(mtype)
    /\ \E rhs \in AllChains(mtype) : clast = MLast("init", chain, rhs, rhs)
    /\ cparity = {}

\* lhs += std::move(rhs)
MovePlusAssign ==
    /\ clast.op = "init"
    /\ \E moved \in {ModMovePlusAssign(mtype, chain, clast.rhs)} :
           /\ chain' = moved.lhs
           /\ clast' = MLast("move_plus_assign", chain, clast.rhs, moved.rhs)
    /\ UNCHANGED <<mtype, cparity>>
    /\ ChainOnly

\* lhs -= std::move(rhs)
MoveMinusAssign ==
    /\ clast.op = "init"
    /\ \E moved \in {ModMoveMinusAssign(mtype, chain, clast.rhs)} :
           /\ chain' = moved.lhs
           /\ clast' = MLast("move_minus_assign", chain, clast.rhs, moved.rhs)
    /\ UNCHANGED <<mtype, cparity>>
    /\ ChainOnly

MoveNext ==
    \/ MovePlusAssign
    \/ MoveMinusAssign

(***************************************************************************)
(* Cube<CCDIM>: an orthant (array of CCDIM coordinates, written as a tuple *)
(* indexed from 1, so axis a of the code is entry a + 1) and an extent     *)
(* (a std::size_t read as a bit mask).                                     *)
(***************************************************************************)
\* HypercubeCoordinate = std::uint_fast8_t: arithmetic is modulo 2^8.
CoordBits == 8

CoordWrap(n) == n % (2 ^ CoordBits)

\* Cube(cube_orthant, cube_extent)
Cube(cube_orthant, cube_extent) ==
    [orthant |-> cube_orthant, extent |-> cube_extent]

\* cube_extent & axis_bit, for a mask axis_bit with a single bit set.
BitAnd(cube_extent, axis_bit) == ((cube_extent \div axis_bit) % 2) * axis_bit

(***************************************************************************)
(* Grading functions.  A complex owns one; K.grading describes its type:   *)
(* SetGrading<Cube, 0, 1> (Minimum and Maximum declared) or a function     *)
(* object that declares neither.                                           *)
(***************************************************************************)
\* The grading_set of the SetGrading: the cells of the face x_0 = minimum_0
\* of the grid (no extent along axis 0).
InGradingSet(K, cell) ==
    cell.orthant[1] = K.min[1] /\ BitAnd(cell.extent, 1) = 0

\* SetGrading::operator(): grading_set.contains(input) ? MIN : MAX
SetGradingCall(K, cell) ==
    IF InGradingSet(K, cell) THEN K.grading.min ELSE K.grading.max

\* A function object without Minimum or Maximum: the largest distance, over
\* the axes, of the cell's far corner from the minimum orthant.
CornerGradingCall(K, cell) ==
    LET far(a) == cell.orthant[a] + (BitAnd(cell.extent, 2 ^ (a - 1)) \div 2 ^ (a - 1))
                      - K.min[a]
    IN  CHOOSE g \in {far(a) : a \in 1 .. K.dim} :
            \A a \in 1 .. K.dim : far(a) <= g

\* CubicalComplex::grade: return grading_function(cell);
grade(K, cell) ==
    CASE K.grading.kind = "SetGrading" -> SetGradingCall(K, cell)
      [] K.grading.kind = "CachedGradingWrapper" -> K.grading.returns[cell]
      [] OTHER -> CornerGradingCall(K, cell)

(***************************************************************************)
(* ConditionalType<Cube>: the predicates handed to boundary_if and         *)
(* coboundary_if.  "true" is the lambda of boundary / coboundary, "grade"  *)
(* the lambda of the graded and closure operators (it captures             *)
(* current_grade), "set" a caller's predicate accepting the cells listed.  *)
(***************************************************************************)
CondTrue == [kind |-> "true", cells |-> {}, current_grade |-> 0]

CondGrade(current_grade) ==
    [kind |-> "grade", cells |-> {}, current_grade |-> current_grade]

CondIn(cells) == [kind |-> "set", cells |-> cells, current_grade |-> 0]

\* cond(cell)
CondCall(K, cond, cell) ==
    CASE cond.kind = "true" -> TRUE
      [] cond.kind = "grade" -> grade(K, cell) = cond.current_grade
      [] cond.kind = "set" -> cell \in cond.cells

(***************************************************************************)
(* CubicalComplex<CCDIM, G, R, M>.  K = [dim, min, max, mtype, grading]    *)
(* holds CCDIM, minimum_orthant, maximum_orthant, the chain type M and the *)
(* grading function's type.                                                *)
(***************************************************************************)
\* Mutant: an outer face is produced on the maximum edge too.
BoundaryIfAxisNoMaxCheck(K, cell, cond, axis, axis_bit, coef, result) ==
    IF BitAnd(cell.extent, axis_bit) # 0
    THEN LET new_extent == cell.extent - axis_bit
             outer_cell ==
                 Cube([cell.orthant EXCEPT ![axis + 1] = CoordWrap(@ + 1)],
                      new_extent)
             inner_cell == Cube(cell.orthant, new_extent)
             with_outer ==
                 IF CondCall(K, cond, outer_cell)
                 THEN ModInsert(K.mtype, result, outer_cell, coef)
                 ELSE result
             with_inner ==
                 IF CondCall(K, cond, inner_cell)
                 THEN ModInsert(K.mtype, with_outer, inner_cell,
                                ZNegate(K.mtype.p, coef))
                 ELSE with_outer
         IN  [coef |-> ZNegate(K.mtype.p, coef), result |-> with_inner]
    ELSE [coef |-> coef, result |-> result]

\* Mutant: coef keeps its sign from one axis with extent to the next.
BoundaryIfAxisNoNegate(K, cell, cond, axis, axis_bit, coef, result) ==
    IF BitAnd(cell.extent, axis_bit) # 0
    THEN LET new_extent == cell.extent - axis_bit
             outer_cell ==
                 Cube([cell.orthant EXCEPT ![axis + 1] = CoordWrap(@ + 1)],
                      new_extent)
             inner_cell == Cube(cell.orthant, new_extent)
             with_outer ==
                 IF /\ cell.orthant[axis + 1] # K.max[axis + 1]
                    /\ CondCall(K, cond, outer_cell)
                 THEN ModInsert(K.mtype, result, outer_cell, coef)
                 ELSE result
             with_inner ==
                 IF CondCall(K, cond, inner_cell)
                 THEN ModInsert(K.mtype, with_outer, inner_cell,
                                ZNegate(K.mtype.p, coef))
                 ELSE with_outer
         IN  [coef |-> coef, result |-> with_inner]
    ELSE [coef |-> coef, result |-> result]

\* Mutant: the faces keep the extent of the cell.
BoundaryIfAxisKeepExtent(K, cell, cond, axis, axis_bit, coef, result) ==
    IF BitAnd(cell.extent, axis_bit) # 0
    THEN LET outer_cell ==
                 Cube([cell.orthant EXCEPT ![axis + 1] = CoordWrap(@ + 1)],
                      cell.extent)
             with_outer ==
                 IF /\ cell.orthant[axis + 1] # K.max[axis + 1]
                    /\ CondCall(K, cond, outer_cell)
                 THEN ModInsert(K.mtype, result, outer_cell, coef)
                 ELSE result
             with_inner ==
                 IF CondCall(K, cond, cell)
                 THEN ModInsert(K.mtype, with_outer, cell,
                                ZNegate(K.mtype.p, coef))
                 ELSE with_outer
         IN  [coef |-> ZNegate(K.mtype.p, coef), result |-> with_inner]
    ELSE [coef |-> coef, result |-> result]

\* boundary_if, the body of the loop over the axes: coef and result after
\* the iteration for `axis`.
BoundaryIfAxis(K, cell, cond, axis, axis_bit, coef, result) ==
    IF BitAnd(cell.extent, axis_bit) # 0
    THEN LET new_extent == cell.extent - axis_bit
             outer_cell ==
                 Cube([cell.orthant EXCEPT ![axis + 1] = CoordWrap(@ + 1)],
                      new_extent)
             inner_cell == Cube(cell.orthant, new_extent)
             with_outer ==
                 IF /\ cell.orthant[axis + 1] # K.max[axis + 1]
                    /\ CondCall(K, cond, outer_cell)
                 THEN ModInsert(K.mtype, result, outer_cell, coef)
                 ELSE result
             with_inner ==
                 IF CondCall(K, cond, inner_cell)
                 THEN ModInsert(K.mtype, with_outer, inner_cell,
                                ZNegate(K.mtype.p, coef))
                 ELSE with_outer
         IN  [coef |-> ZNegate(K.mtype.p, coef), result |-> with_inner]
    ELSE [coef |-> coef, result |-> result]

RECURSIVE BoundaryIfLoop(_, _, _, _, _, _, _)
\* for (axis = 0; axis < CCDIM; ++axis, axis_bit <<= 1)
BoundaryIfLoop(K, cell, cond, axis, axis_bit, coef, result) ==
    IF ~(axis < K.dim) THEN result
    ELSE LET after == BoundaryIfAxis(K, cell, cond, axis, axis_bit, coef, result)
         IN  BoundaryIfLoop(K, cell, cond, axis + 1, axis_bit * 2,
                            after.coef, after.result)

\* CubicalComplex::boundary_if(cell, cond)
boundary_if(K, cell, cond) ==
    BoundaryIfLoop(K, cell, cond, 0, 1, one(K.mtype.p), ModZero(K.mtype))

\* Mutant: an inner coface is produced on the minimum edge too.
CoboundaryIfAxisNoMinCheck(K, cell, cond, axis, axis_bit, coef, result) ==
    IF BitAnd(cell.extent, axis_bit) = 0
    THEN LET new_extent == cell.extent + axis_bit
             inner_cell ==
                 Cube([cell.orthant EXCEPT ![axis + 1] = CoordWrap(@ - 1)],
                      new_extent)
             outer_cell == Cube(cell.orthant, new_extent)
             with_inner ==
                 IF CondCall(K, cond, inner_cell)
                 THEN ModInsert(K.mtype, result, inner_cell, coef)
                 ELSE result
             with_outer ==
                 IF CondCall(K, cond, outer_cell)
                 THEN ModInsert(K.mtype, with_inner, outer_cell,
                                ZNegate(K.mtype.p, coef))
                 ELSE with_inner
         IN  [coef |-> coef, result |-> with_outer]
    ELSE [coef |-> ZNegate(K.mtype.p, coef), result |-> result]

\* Mutant: coef is negated after the axes without extent, as boundary_if
\* does after the axes with extent.
CoboundaryIfAxisNegateOnCoface(K, cell, cond, axis, axis_bit, coef, result) ==
    IF BitAnd(cell.extent, axis_bit) = 0
    THEN LET new_extent == cell.extent + axis_bit
             inner_cell ==
                 Cube([cell.orthant EXCEPT ![axis + 1] = CoordWrap(@ - 1)],
                      new_extent)
             outer_cell == Cube(cell.orthant, new_extent)
             with_inner ==
                 IF /\ cell.orthant[axis + 1] # K.min[axis + 1]
                    /\ CondCall(K, cond, inner_cell)
                 THEN ModInsert(K.mtype, result, inner_cell, coef)
                 ELSE result
             with_outer ==
                 IF CondCall(K, cond, outer_cell)
                 THEN ModInsert(K.mtype, with_inner, outer_cell,
                                ZNegate(K.mtype.p, coef))
                 ELSE with_inner
         IN  [coef |-> ZNegate(K.mtype.p, coef), result |-> with_outer]
    ELSE [coef |-> coef, result |-> result]

\* coboundary_if, the body of the loop over the axes.
CoboundaryIfAxis(K, cell, cond, axis, axis_bit, coef, result) ==
    IF BitAnd(cell.extent, axis_bit) = 0
    THEN LET new_extent == cell.extent + axis_bit
             inner_cell ==
                 Cube([cell.orthant EXCEPT ![axis + 1] = CoordWrap(@ - 1)],
                      new_extent)
             outer_cell == Cube(cell.orthant, new_extent)
             with_inner ==
                 IF /\ cell.orthant[axis + 1] # K.min[axis + 1]
                    /\ CondCall(K, cond, inner_cell)
                 THEN ModInsert(K.mtype, result, inner_cell, coef)
                 ELSE result
             with_outer ==
                 IF CondCall(K, cond, outer_cell)
                 THEN ModInsert(K.mtype, with_inner, outer_cell,
                                ZNegate(K.mtype.p, coef))
                 ELSE with_inner
         IN  [coef |-> coef, result |-> with_outer]
    ELSE [coef |-> ZNegate(K.mtype.p, coef), result |-> result]

RECURSIVE CoboundaryIfLoop(_, _, _, _, _, _, _)
\* for (axis = 0; axis < CCDIM; ++axis, axis_bit <<= 1)
CoboundaryIfLoop(K, cell, cond, axis, axis_bit, coef, result) ==
    IF ~(axis < K.dim) THEN result
    ELSE LET after == CoboundaryIfAxis(K, cell, cond, axis, axis_bit, coef, result)
         IN  CoboundaryIfLoop(K, cell, cond, axis + 1, axis_bit * 2,
                              after.coef, after.result)

\* CubicalComplex::coboundary_if(cell, cond)
coboundary_if(K, cell, cond) ==
    CoboundaryIfLoop(K, cell, cond, 0, 1, one(K.mtype.p), ModZero(K.mtype))

(***************************************************************************)
(* The free functions of complexes.hpp on a cell.                          *)
(***************************************************************************)
\* boundary(complex, cell): boundary_if with the predicate that returns true
boundary(K, cell) == boundary_if(K, cell, CondTrue)

\* Mutant: no face is filtered out by its grade.
GradedBoundaryUnfiltered(K, cell) == boundary(K, cell)

\* graded_boundary(complex, cell): the overload for LowerBoundedGrading
\* returns boundary(complex, cell) at the Minimum grade.
graded_boundary(K, cell) ==
    LET current_grade == grade(K, cell)
    IN  IF K.grading.hasMin /\ current_grade = K.grading.min
        THEN boundary(K, cell)
        ELSE boundary_if(K, cell, CondGrade(current_grade))

\* Mutant: the faces are filtered by grade as in graded_boundary.
ClosureBoundaryGraded(K, cell) == graded_boundary(K, cell)

\* closure_boundary(complex, cell): return boundary(complex, cell);
closure_boundary(K, cell) == boundary(K, cell)

\* coboundary(complex, cell)
coboundary(K, cell) == coboundary_if(K, cell, CondTrue)

\* Mutant: the whole coboundary at every grade.
GradedCoboundaryUnfiltered(K, cell) == coboundary(K, cell)

\* graded_coboundary(complex, cell): the overload for UpperBoundedGrading
\* returns coboundary(complex, cell) at the Maximum grade.
graded_coboundary(K, cell) ==
    LET current_grade == grade(K, cell)
    IN  IF K.grading.hasMax /\ current_grade = K.grading.max
        THEN coboundary(K, cell)
        ELSE coboundary_if(K, cell, CondGrade(current_grade))

\* Mutant: no coface is filtered out by its grade.
ClosureCoboundaryUnfiltered(K, cell) == coboundary(K, cell)

\* closure_coboundary(complex, cell): the same two overloads, the predicate
\* comparing the grade of the coface with current_grade by ==.
closure_coboundary(K, cell) ==
    LET current_grade == grade(K, cell)
    IN  IF K.grading.hasMax /\ current_grade = K.grading.max
        THEN coboundary(K, cell)
        ELSE coboundary_if(K, cell, CondGrade(current_grade))

\* The cell-level operator a chain overload hands to linear_apply.
CellOperator(K, name, cell) ==
    CASE name = "boundary" -> boundary(K, cell)
      [] name = "graded_boundary" -> graded_boundary(K, cell)
      [] name = "closure_boundary" -> closure_boundary(K, cell)
      [] name = "coboundary" -> coboundary(K, cell)
      [] name = "graded_coboundary" -> graded_coboundary(K, cell)
      [] name = "closure_coboundary" -> closure_coboundary(K, cell)

(***************************************************************************)
(* linear_apply(elem, func) of algebra.hpp, as the chain overloads call    *)
(* it: func(cell) is the chain the cell-level operator returns, and the    *)
(* inner loop runs over its (basis element, coefficient) pairs.            *)
(***************************************************************************)
\* The containers of Cube are unordered: any element may come next.  The
\* result of the loops does not depend on the one chosen.
NextCube(todo) == CHOOSE c \in todo : TRUE

\* Mutant: the inserted coefficient is not multiplied by the cell's.
LinearApplyInsertNoCoef(M, result, coef, first, second) ==
    ModInsert(M, result, first, second)

\* result.insert(begin_it->first, coef * begin_it->second)
LinearApplyInsert(M, result, coef, first, second) ==
    ModInsert(M, result, first, ZTimes(M.p, coef, second))

RECURSIVE LinearApplyInner(_, _, _, _, _)
\* for (begin_it .. end_it over func(cell))
LinearApplyInner(M, result, coef, image, todo) ==
    IF todo = {} THEN result
    ELSE LET first == NextCube(todo)
         IN  LinearApplyInner(M,
                 LinearApplyInsert(M, result, coef, first, ModAt(M, image, first)),
                 coef, image, todo \ {first})

RECURSIVE LinearApplyOuter(_, _, _, _, _)
\* for (cell : elem) { coef = elem[cell]; ... }
LinearApplyOuter(K, name, elem, todo, result) ==
    IF todo = {} THEN result
    ELSE LET cell == NextCube(todo)
             coef == ModAt(K.mtype, elem, cell)
             image == CellOperator(K, name, cell)
         IN  LinearApplyOuter(K, name, elem, todo \ {cell},
                 LinearApplyInner(K.mtype, result, coef, image,
                                  ModCells(K.mtype, image)))

linear_apply(K, name, elem) ==
    LinearApplyOuter(K, name, elem, ModCells(K.mtype, elem), ModZero(K.mtype))

(***************************************************************************)
(* linear_apply with a LinearMap<M, I>: func(cell) returns a pair of       *)
(* iterators over (basis element, coefficient) pairs, written here as the  *)
(* sequence between them.                                                  *)
(***************************************************************************)
\* Mutant: only the pair at begin_it is inserted, the loop does not go on.
LinearMapInnerFirstOnly(M, result, coef, pairs, begin_it) ==
    IF begin_it > Len(pairs) THEN result
    ELSE LinearApplyInsert(M, result, coef, pairs[begin_it].first,
                           pairs[begin_it].second)

RECURSIVE LinearMapInner(_, _, _, _, _)
\* for (std::tie(begin_it, end_it) = func(cell); begin_it != end_it;
\*      begin_it++) result.insert(begin_it->first, coef * begin_it->second);
LinearMapInner(M, result, coef, pairs, begin_it) ==
    IF begin_it > Len(pairs) THEN result
    ELSE LinearMapInner(M,
             LinearApplyInsert(M, result, coef, pairs[begin_it].first,
                               pairs[begin_it].second),
             coef, pairs, begin_it + 1)

RECURSIVE LinearMapOuter(_, _, _, _, _)
\* for (cell : elem) { coef = elem[cell]; ... }
LinearMapOuter(M, elem, func, todo, result) ==
    IF todo = {} THEN result
    ELSE LET cell == NextCell(todo)
             coef == ModAt(M, elem, cell)
         IN  LinearMapOuter(M, elem, func, todo \ {cell},
                 LinearMapInner(M, result, coef, func[cell], 1))

\* linear_apply(elem, func): M result; the loops; return result;
LinearApply(M, elem, func) ==
    LinearMapOuter(M, elem, func, ModCells(M, elem), ModZero(M))

\* std::make_pair(cell, coef)
MakePair(first, second) == [first |-> first, second |-> second]

\* The maps of the shape of lfunc in modules.test.cpp: cell goes to the
\* pairs (cell, c), (cell_0, c_0), (cell_1, c_1); the test has c = one,
\* c_0 = zero, c_1 = one.
LFunc(cell_0, cell_1, c, c_0, c_1) ==
    [cell \in Basis |->
        <<MakePair(cell, c), MakePair(cell_0, c_0), MakePair(cell_1, c_1)>>]

LinearMaps(M) ==
    {LFunc(cell_0, cell_1, c, c_0, c_1) :
        cell_0 \in Basis, cell_1 \in Basis,
        c \in CoefInputs(M.p), c_0 \in CoefInputs(M.p),
        c_1 \in CoefInputs(M.p)}

\* The identity linear map: each cell goes to the single pair (cell, one).
IdentityMap(M) == [cell \in Basis |-> <<MakePair(cell, one(M.p))>>]

(***************************************************************************)
(* SpecLinear: an element of a module type exists, and linear_apply is     *)
(* called on it with a LinearMap.                                          *)
(***************************************************************************)
LCall(op, elem) == [op |-> op, elem |-> elem]

LinearStart ==
    /\ lmodule \in ModuleTypes
    /\ lelem \in AllChains(lmodule)
    /\ lfunc = IdentityMap(lmodule)
    /\ lcalled = LCall("none", ModZero(lmodule))
    /\ lresult = ModZero(lmodule)

\* The linear component when another specification runs.
LinearIdle ==
    /\ lmodule = [backing |-> "set", p |-> 2]
    /\ lelem = {}
    /\ lfunc = IdentityMap([backing |-> "set", p |-> 2])
    /\ lcalled = LCall("none", {})
    /\ lresult = {}

\* linear_apply has not been called yet.
NotApplied == lcalled.op = "none"

\* M result = linear_apply(elem, func); elem is taken by const reference.
LinearCall(op, func) ==
    /\ lfunc' = func
    /\ lcalled' = LCall(op, lelem)
    /\ lresult' = LinearApply(lmodule, lelem, func)
    /\ UNCHANGED <<lmodule, lelem>>

\* linear_apply(elem, lfunc)
ApplyLinearMap ==
    /\ NotApplied
    /\ \E func \in LinearMaps(lmodule) : LinearCall("lfunc", func)
    /\ LinearOnly

\* linear_apply(elem, identity)
ApplyIdentityMap ==
    /\ NotApplied
    /\ LinearCall("identity", IdentityMap(lmodule))
    /\ LinearOnly

LinearNext ==
    \/ ApplyLinearMap
    \/ ApplyIdentityMap

(***************************************************************************)
(* SpecCube: a complex is constructed, a cell-level operator is called on  *)
(* one of its cells, and a chain overload is applied to the chain this     *)
(* returned.                                                               *)
(***************************************************************************)
\* minimum and maximum coordinate along one axis: the whole range from the
\* origin, a range with a minimum above the origin, a single layer.
AxisRanges ==
    [full |-> <<0, MaxCoord>>, raised |-> <<1, MaxCoord>>, layer |-> <<1, 1>>]

\* The grids constructed, one kind of range per axis.
Shapes ==
    {<<"full", "raised">>, <<"layer", "full">>, <<"raised", "full", "raised">>}

\* The chain types of the complexes: DefaultModule<Cube, Z<2>> is
\* set-backed, DefaultModule<Cube, Z<5>> map-backed.
CubeModuleTypes ==
    {[backing |-> "set", p |-> 2], [backing |-> "map", p |-> 5]}

GradingTypes ==
    {[kind |-> "SetGrading", hasMin |-> TRUE, hasMax |-> TRUE,
      min |-> 0, max |-> 1],
     [kind |-> "CornerGrading", hasMin |-> FALSE, hasMax |-> FALSE,
      min |-> 0, max |-> 0]}

\* CubicalComplex(minimum_orthant, maximum_orthant, grading_function)
CubicalComplex(shape, M, G) ==
    [dim |-> Len(shape),
     min |-> [a \in 1 .. Len(shape) |-> AxisRanges[shape[a]][1]],
     max |-> [a \in 1 .. Len(shape) |-> AxisRanges[shape[a]][2]],
     mtype |-> M,
     grading |-> G]

\* The complexes constructed: the two-dimensional grids over both chain
\* types, the three-dimensional grid over Z<5> (the complex of
\* cubical.test.cpp), each with both gradings.
Complexes ==
    {K \in {CubicalComplex(shape, M, G) :
                shape \in Shapes, M \in CubeModuleTypes, G \in GradingTypes} :
        K.dim = 2 \/ K.mtype.backing = "map"}

\* The cells whose orthant lies between the minimum and the maximum orthant.
CellsOf(K) ==
    {Cube(o, e) :
        o \in {x \in [1 .. K.dim -> 0 .. MaxCoord] :
                  \A a \in 1 .. K.dim : K.min[a] <= x[a] /\ x[a] <= K.max[a]},
        e \in 0 .. (2 ^ K.dim - 1)}

CubeStart ==
    /\ kx \in Complexes
    /\ kop = "none"
    /\ kcell = Cube(kx.min, 0)
    /\ kcond = CondTrue
    /\ kchainop = "none"
    /\ kinput = ModZero(kx.mtype)
    /\ kresult = ModZero(kx.mtype)

\* The cube component when another specification runs.
CubeIdle ==
    /\ kx = CubicalComplex(<<"layer", "layer">>, [backing |-> "set", p |-> 2],
                           [kind |-> "SetGrading", hasMin |-> TRUE,
                            hasMax |-> TRUE, min |-> 0, max |-> 1])
    /\ kop = "none"
    /\ kcell = Cube(<<1, 1>>, 0)
    /\ kcond = CondTrue
    /\ kchainop = "none"
    /\ kinput = {}
    /\ kresult = {}

\* No operator has been called on the complex yet.
Fresh == kop = "none"

\* A call of a cell-level operator: what the variables hold after it.
CellCall(name, cell, cond, result) ==
    /\ kop' = name
    /\ kcell' = cell
    /\ kcond' = cond
    /\ kchainop' = "none"
    /\ kinput' = ModZero(kx.mtype)
    /\ kresult' = result
    /\ UNCHANGED kx

\* boundary_if(complex, cell, cond), the predicate accepting any set of the
\* cells it is asked about
CellBoundaryIf ==
    /\ Fresh
    /\ \E cell \in CellsOf(kx) :
            \E accepted \in SUBSET ModCells(kx.mtype, boundary(kx, cell)) :
                /\ CellCall("boundary_if", cell, CondIn(accepted),
                            boundary_if(kx, cell, CondIn(accepted)))
                /\ CubeOnly

\* boundary(complex, cell)
CellBoundary ==
    /\ Fresh
    /\ \E cell \in CellsOf(kx) :
            /\ CellCall("boundary", cell, CondTrue, boundary(kx, cell))
            /\ CubeOnly

\* graded_boundary(complex, cell)
CellGradedBoundary ==
    /\ Fresh
    /\ \E cell \in CellsOf(kx) :
            /\ CellCall("graded_boundary", cell, CondGrade(grade(kx, cell)),
                        graded_boundary(kx, cell))
            /\ CubeOnly

\* closure_boundary(complex, cell)
CellClosureBoundary ==
    /\ Fresh
    /\ \E cell \in CellsOf(kx) :
            /\ CellCall("closure_boundary", cell, CondTrue,
                        closure_boundary(kx, cell))
            /\ CubeOnly

\* coboundary_if(complex, cell, cond)
CellCoboundaryIf ==
    /\ Fresh
    /\ \E cell \in CellsOf(kx) :
            \E accepted \in SUBSET ModCells(kx.mtype, coboundary(kx, cell)) :
                /\ CellCall("coboundary_if", cell, CondIn(accepted),
                            coboundary_if(kx, cell, CondIn(accepted)))
                /\ CubeOnly

\* coboundary(complex, cell)
CellCoboundary ==
    /\ Fresh
    /\ \E cell \in CellsOf(kx) :
            /\ CellCall("coboundary", cell, CondTrue, coboundary(kx, cell))
            /\ CubeOnly

\* graded_coboundary(complex, cell)
CellGradedCoboundary ==
    /\ Fresh
    /\ \E cell \in CellsOf(kx) :
            /\ CellCall("graded_coboundary", cell, CondGrade(grade(kx, cell)),
                        graded_coboundary(kx, cell))
            /\ CubeOnly

\* closure_coboundary(complex, cell)
CellClosureCoboundary ==
    /\ Fresh
    /\ \E cell \in CellsOf(kx) :
            /\ CellCall("closure_coboundary", cell, CondGrade(grade(kx, cell)),
                        closure_coboundary(kx, cell))
            /\ CubeOnly

\* A call of a chain overload on the chain the cell-level call returned.
ChainCall(name) ==
    /\ kop # "none"
    /\ kchainop = "none"
    /\ kchainop' = name
    /\ kinput' = kresult
    /\ kresult' = linear_apply(kx, name, kresult)
    /\ UNCHANGED <<kx, kop, kcell, kcond>>

\* boundary(complex, chain)
ChainBoundary == ChainCall("boundary") /\ CubeOnly

\* graded_boundary(complex, chain)
ChainGradedBoundary == ChainCall("graded_boundary") /\ CubeOnly

\* closure_boundary(complex, chain)
ChainClosureBoundary == ChainCall("closure_boundary") /\ CubeOnly

\* coboundary(complex, chain)
ChainCoboundary == ChainCall("coboundary") /\ CubeOnly

\* graded_coboundary(complex, chain)
ChainGradedCoboundary == ChainCall("graded_coboundary") /\ CubeOnly

\* closure_coboundary(complex, chain)
ChainClosureCoboundary == ChainCall("closure_coboundary") /\ CubeOnly

CubeNext ==
    \/ CellBoundaryIf
    \/ CellBoundary
    \/ CellGradedBoundary
    \/ CellClosureBoundary
    \/ CellCoboundaryIf
    \/ CellCoboundary
    \/ CellGradedCoboundary
    \/ CellClosureCoboundary
    \/ ChainBoundary
    \/ ChainGradedBoundary
    \/ ChainClosureBoundary
    \/ ChainCoboundary
    \/ ChainGradedCoboundary
    \/ ChainClosureCoboundary

(***************************************************************************)
(* LRUCache of util/cache.hpp.  A cache is the record of its members:      *)
(* cache_list, a sequence of list nodes, most recently used first;         *)
(* cache_map, key -> list iterator; construct_value; cache_max_size.  A    *)
(* list node is [id, key, value]: key and value are the stored pair and    *)
(* id is the node's address, so a list iterator is a node id and may refer *)
(* to a node of any list, or to no node.  The argument `all` of the        *)
(* operators below is every cache object alive, cache id -> cache.         *)
(***************************************************************************)
\* The keys handed to the caches.
Keys == 1..NumKeys

\* The cache objects of a run: c and temp of cache.test.cpp.
CacheIds == {1, 2}

\* The capacities the caches are constructed with; at least one is required.
CacheSizes == {1, 2}

\* The value constructors the caches are built on, those of cache.test.cpp.
Constructors == {"odd", "shift"}

\* construct_value(key): 2 * x + 1, or input << 2, or the grading function
\* a CachedGradingWrapper wraps, that of the complex kx.
ConstructValue(f, key) ==
    CASE f = "odd" -> 2 * key + 1
      [] f = "shift" -> key * 4
      [] f = "grading" -> grade(kx, key)

\* What a call of construct_value raises: an empty std::function throws
\* instead of returning.
ConstructRaises(f) == IF f = "none" THEN "bad_function_call" ELSE "nothing"

\* LRUCache(construct_value, max_size)
LRUCache(f, max_size) ==
    [list |-> <<>>, map |-> EmptyMap, fn |-> f, max |-> max_size]

\* size(), max_size() and contains(key)
size(cache) == Cardinality(DOMAIN cache.map)

max_size(cache) == cache.max

contains(cache, key) == key \in DOMAIN cache.map

\* The addresses of the nodes of a list, and of all the lists of `all`.
NodeIds(list) == {list[i].id : i \in 1..Len(list)}

LiveNodes(all) == UNION {NodeIds(all[c].list) : c \in DOMAIN all}

\* The nodes of all the lists, those of cache c and the caches after it.
RECURSIVE AllNodes(_, _)
AllNodes(all, c) ==
    IF c \notin DOMAIN all THEN <<>> ELSE all[c].list \o AllNodes(all, c + 1)

\* Addresses are only ever compared, so the states are kept up to a
\* renaming of them: every node is renamed to its place among the nodes of
\* all the lists, and an iterator to no node to 0.
Renumber(all) ==
    LET nodes == AllNodes(all, 1)
        new(it) == IF \E i \in 1..Len(nodes) : nodes[i].id = it
                   THEN CHOOSE i \in 1..Len(nodes) : nodes[i].id = it
                   ELSE 0
    IN  [c \in DOMAIN all |->
            [all[c] EXCEPT
                !.list = [i \in 1..Len(@) |-> [@[i] EXCEPT !.id = new(@)]],
                !.map = [k \in DOMAIN @ |-> new(@[k])]]]

\* The allocation of a list node: an address no live node has.
NewNode(live) ==
    CHOOSE n \in 1..(Cardinality(live) + 1) :
        n \notin live /\ \A m \in 1..(n - 1) : m \in live

\* cache_map[key] = it, and cache_map.erase(key)
MapPut(map, key, it) ==
    [k \in DOMAIN map \cup {key} |-> IF k = key THEN it ELSE map[k]]

MapErase(map, key) == [k \in DOMAIN map \ {key} |-> map[k]]

\* list without its i-th node
Unlink(list, i) == SubSeq(list, 1, i - 1) \o SubSeq(list, i + 1, Len(list))

\* The position in list of the node at address it, 0 when it is elsewhere.
Position(list, it) ==
    IF it \in NodeIds(list)
    THEN CHOOSE i \in 1..Len(list) : list[i].id = it
    ELSE 0

\* The loop of recompute_iterators from the i-th node on.
RECURSIVE RecomputeLoop(_, _, _)
RecomputeLoop(list, map, i) ==
    IF i > Len(list)
    THEN map
    ELSE RecomputeLoop(list, MapPut(map, list[i].key, list[i].id), i + 1)

\* recompute_iterators(): every node's key is mapped to the node.
recompute_iterators(cache) ==
    [cache EXCEPT !.map = RecomputeLoop(cache.list, cache.map, 1)]

\* The copy of the pairs of `from` into newly allocated nodes, appended to
\* acc.
RECURSIVE CopyNodes(_, _, _)
CopyNodes(from, live, acc) ==
    IF from = <<>>
    THEN acc
    ELSE LET n == NewNode(live)
         IN  CopyNodes(Tail(from), live \cup {n},
                       Append(acc, [Head(from) EXCEPT !.id = n]))

\* The members after the copy constructor without the fix of the iterators:
\* the map entries still refer to the nodes of other.
CopyConstructedNoRecompute(other, live) ==
    [list |-> CopyNodes(other.list, live, <<>>), map |-> other.map,
     fn |-> other.fn, max |-> other.max]

\* LRUCache(const LRUCache& other): the list and the map are copied member
\* by member, then the iterators are recomputed.
CopyConstructed(other, live) ==
    recompute_iterators(
        [list |-> CopyNodes(other.list, live, <<>>), map |-> other.map,
         fn |-> other.fn, max |-> other.max])

\* operator=(const LRUCache& other): the four members are assigned, the
\* list holding copies of the pairs of other, then the iterators are
\* recomputed.
CopyAssigned(cache, other, live) ==
    recompute_iterators(
        [cache EXCEPT !.list = CopyNodes(other.list, live, <<>>),
                      !.map = other.map, !.fn = other.fn,
                      !.max = other.max])

\* The members after a move that took the list and the function and left
\* the map behind.
MovedFromKeepsMap(cache) == [cache EXCEPT !.list = <<>>, !.fn = "none"]

\* The members a move leaves behind: the containers and the function are
\* empty, cache_max_size is copied.
MovedFrom(cache) ==
    [list |-> <<>>, map |-> EmptyMap, fn |-> "none", max |-> cache.max]

\* The miss of operator[] without the removal from the end of the list.
CacheMissNoEviction(all, c, key) ==
    LET cache == all[c]
        node == [id |-> NewNode(LiveNodes(all)), key |-> key,
                 value |-> ConstructValue(cache.fn, key)]
        pushed == <<node>> \o cache.list
    IN  [all |-> [all EXCEPT ![c].list = pushed,
                             ![c].map = MapPut(cache.map, key, node.id)],
         result |-> node.value, calls |-> 1, raised |-> "nothing"]

\* The miss of operator[]: the pair is constructed and pushed to the front
\* of the list, the map refers to it, and when the map has grown past
\* cache_max_size the node at the end of the list leaves the list and the
\* map.  An empty construct_value throws before anything is changed.
CacheMiss(all, c, key) ==
    LET cache == all[c]
        node == [id |-> NewNode(LiveNodes(all)), key |-> key,
                 value |-> ConstructValue(cache.fn, key)]
        pushed == <<node>> \o cache.list
        mapped == MapPut(cache.map, key, node.id)
        full == Cardinality(DOMAIN mapped) > cache.max
        list == IF full THEN SubSeq(pushed, 1, Len(pushed) - 1) ELSE pushed
        map == IF full THEN MapErase(mapped, Last(pushed).key) ELSE mapped
    IN  IF ConstructRaises(cache.fn) # "nothing"
        THEN [all |-> all, result |-> 0, calls |-> 1,
              raised |-> ConstructRaises(cache.fn)]
        ELSE [all |-> [all EXCEPT ![c].list = list, ![c].map = map],
              result |-> list[1].value, calls |-> 1, raised |-> "nothing"]

\* The hit of operator[] when the found iterator is moved but the splice to
\* the front is left out.
CacheHitNoSplice(all, c, key) ==
    LET it == all[c].map[key]
        i == Position(all[c].list, it)
    IN  IF i = 0
        THEN [all |-> all, result |-> 0, calls |-> 0, raised |-> "undefined"]
        ELSE [all |-> all, result |-> all[c].list[i].value, calls |-> 0,
              raised |-> "nothing"]

\* The hit of operator[] returning the value at the front of the list
\* before the splice.
CacheHitReturnsFront(all, c, key) ==
    [all |-> all, result |-> all[c].list[1].value, calls |-> 0,
     raised |-> "nothing"]

\* The hit of operator[]: the node the map refers to is spliced to the
\* front of cache_list and its value returned.  The splice unlinks the node
\* from the list it is in, whichever that is; an iterator to no node is
\* undefined behaviour.
CacheHit(all, c, key) ==
    LET it == all[c].map[key]
        owners == {d \in DOMAIN all : it \in NodeIds(all[d].list)}
    IN  IF owners = {}
        THEN [all |-> all, result |-> 0, calls |-> 0, raised |-> "undefined"]
        ELSE LET d == CHOOSE o \in owners : TRUE
                 i == Position(all[d].list, it)
                 node == all[d].list[i]
                 unlinked == [all EXCEPT ![d].list = Unlink(all[d].list, i)]
             IN  [all |-> [unlinked EXCEPT
                              ![c].list = <<node>> \o unlinked[c].list],
                  result |-> node.value, calls |-> 0, raised |-> "nothing"]

\* operator[] without the lookup: every access takes the path of a miss.
CacheAtNoLookup(all, c, key) == CacheMiss(all, c, key)

\* operator[](key) of cache c: the caches afterwards, the value returned,
\* the number of calls of construct_value and what was raised instead of a
\* return.
CacheAt(all, c, key) ==
    IF key \notin DOMAIN all[c].map
    THEN CacheMiss(all, c, key)
    ELSE CacheHit(all, c, key)

(***************************************************************************)
(* SpecCache: two caches are constructed and then accessed, queried,       *)
(* copied and moved in any order.  lruhist is history: for every cache the *)
(* keys it holds, by the time of their last access (`used`, latest first)  *)
(* and by the time of their insertion (`inserted`, earliest first); a copy *)
(* or a move hands the history over with the entries.                      *)
(***************************************************************************)
NoHistory == [used |-> <<>>, inserted |-> <<>>]

\* seq without the elements outside keep
RECURSIVE Restrict(_, _)
Restrict(seq, keep) ==
    IF seq = <<>>
    THEN <<>>
    ELSE IF Head(seq) \in keep
         THEN <<Head(seq)>> \o Restrict(Tail(seq), keep)
         ELSE Restrict(Tail(seq), keep)

\* The history of a cache after an access of key that left it with the keys
\* kept.
Accessed(hist, key, kept) ==
    [used |-> Restrict(<<key>> \o Restrict(hist.used, Keys \ {key}), kept),
     inserted |-> Restrict(IF key \in {hist.inserted[i] :
                                          i \in 1..Len(hist.inserted)}
                           THEN hist.inserted
                           ELSE Append(hist.inserted, key), kept)]

LruCall(op, c, other, key, result, calls, raised) ==
    [op |-> op, cache |-> c, other |-> other, key |-> key,
     result |-> result, calls |-> calls, raised |-> raised, before |-> lru,
     histbefore |-> lruhist]

CacheStart ==
    /\ lru \in [CacheIds -> {LRUCache(f, n) : f \in Constructors,
                                               n \in CacheSizes}]
    /\ lruhist = [c \in CacheIds |-> NoHistory]
    /\ lrulast = [op |-> "none"]

\* The cache component when another specification runs.
CacheIdle ==
    /\ lru = [c \in CacheIds |-> LRUCache("odd", 1)]
    /\ lruhist = [c \in CacheIds |-> NoHistory]
    /\ lrulast = [op |-> "none"]

\* c[key]
Access(c, key) ==
    LET r == CacheAt(lru, c, key)
    IN  /\ lru' = Renumber(r.all)
        /\ lruhist' = IF r.raised # "nothing"
                      THEN lruhist
                      ELSE [lruhist EXCEPT
                               ![c] = Accessed(@, key, DOMAIN r.all[c].map)]
        /\ lrulast' = LruCall("access", c, c, key, r.result, r.calls,
                               r.raised)
        /\ CacheOnly

\* c.contains(key), a const member function
Contains(c, key) ==
    /\ lrulast' = LruCall("contains", c, c, key, contains(lru[c], key), 0,
                           "nothing")
    /\ UNCHANGED <<lru, lruhist>>
    /\ CacheOnly

\* LRUCache c(other): the object that held the name c before is gone, its
\* nodes with it.
CopyConstruct(c, other) ==
    /\ c # other
    /\ lru' = Renumber([lru EXCEPT ![c] = CopyConstructed(
                   lru[other], LiveNodes([lru EXCEPT ![c].list = <<>>]))])
    /\ lruhist' = [lruhist EXCEPT ![c] = lruhist[other]]
    /\ lrulast' = LruCall("copy-construct", c, other, 0, 0, 0, "nothing")
    /\ CacheOnly

\* c = other
CopyAssign(c, other) ==
    /\ lru' = Renumber([lru EXCEPT
                   ![c] = CopyAssigned(@, lru[other], LiveNodes(lru))])
    /\ lruhist' = [lruhist EXCEPT ![c] = lruhist[other]]
    /\ lrulast' = LruCall("copy-assign", c, other, 0, 0, 0, "nothing")
    /\ CacheOnly

\* LRUCache c(std::move(other)), the defaulted move constructor: the
\* members are moved one by one, the nodes change owner and keep their
\* addresses.
MoveConstruct(c, other) ==
    /\ c # other
    /\ lru' = Renumber([lru EXCEPT ![c] = lru[other],
                                    ![other] = MovedFrom(@)])
    /\ lruhist' = [lruhist EXCEPT ![c] = lruhist[other],
                                  ![other] = NoHistory]
    /\ lrulast' = LruCall("move-construct", c, other, 0, 0, 0, "nothing")
    /\ CacheOnly

\* c = std::move(other), the defaulted move assignment.  The argument is
\* another object: the move assignments of the members take their argument
\* for a unique reference (C++ [res.on.arguments]).
MoveAssign(c, other) ==
    /\ c # other
    /\ lru' = Renumber([lru EXCEPT ![c] = lru[other],
                                    ![other] = MovedFrom(@)])
    /\ lruhist' = [lruhist EXCEPT ![c] = lruhist[other],
                                  ![other] = NoHistory]
    /\ lrulast' = LruCall("move-assign", c, other, 0, 0, 0, "nothing")
    /\ CacheOnly

CacheNext ==
    \/ \E c \in CacheIds, key \in Keys : Access(c, key)
    \/ \E c \in CacheIds, key \in Keys : Contains(c, key)
    \/ \E c \in CacheIds, other \in CacheIds : CopyConstruct(c, other)
    \/ \E c \in CacheIds, other \in CacheIds : CopyAssign(c, other)
    \/ \E c \in CacheIds, other \in CacheIds : MoveConstruct(c, other)
    \/ \E c \in CacheIds, other \in CacheIds : MoveAssign(c, other)

(***************************************************************************)
(* CachedGradingWrapper of complexes/grading.hpp: a grading function       *)
(* object whose call operator is the operator[] of an LRUCache built on    *)
(* the wrapped grading.  SpecCached: a complex owns a wrapper, and grade,  *)
(* graded_boundary and graded_coboundary are called on its cells in any    *)
(* order, every grading call going through the cache lru[1].               *)
(***************************************************************************)
\* The grading type of the wrapper as an operator sees it during one call:
\* Minimum and Maximum are those of the wrapped type, and operator() gives
\* for the cells asked the grades the cache handed back.
CachedGradingWrapper(G, cells, returns) ==
    [kind |-> "CachedGradingWrapper", hasMin |-> G.hasMin,
     hasMax |-> G.hasMax, min |-> G.min, max |-> G.max,
     returns |-> [x \in {cells[i] : i \in 1..Len(cells)} |->
                     returns[CHOOSE i \in 1..Len(cells) : cells[i] = x]]]

\* grading_function(cell) for the cells of asked in turn: the caches
\* afterwards and the grades returned, appended to returns.
RECURSIVE CachedCalls(_, _, _)
CachedCalls(all, asked, returns) ==
    IF asked = <<>>
    THEN [all |-> all, returns |-> returns]
    ELSE LET r == CacheAt(all, 1, Head(asked))
         IN  CachedCalls(Renumber(r.all), Tail(asked),
                         Append(returns, r.result))

\* The cells boundary_if hands to its predicate, in the order of the calls,
\* from the iteration for axis on.
RECURSIVE FacesAsked(_, _, _)
FacesAsked(K, cell, axis) ==
    IF ~(axis < K.dim)
    THEN <<>>
    ELSE LET new_extent == cell.extent - 2 ^ axis
             outer_cell ==
                 Cube([cell.orthant EXCEPT ![axis + 1] = CoordWrap(@ + 1)],
                      new_extent)
             inner_cell == Cube(cell.orthant, new_extent)
         IN  (IF BitAnd(cell.extent, 2 ^ axis) # 0
              THEN (IF cell.orthant[axis + 1] # K.max[axis + 1]
                    THEN <<outer_cell>> ELSE <<>>) \o <<inner_cell>>
              ELSE <<>>) \o FacesAsked(K, cell, axis + 1)

\* The cells coboundary_if hands to its predicate, in the order of the
\* calls.
RECURSIVE CofacesAsked(_, _, _)
CofacesAsked(K, cell, axis) ==
    IF ~(axis < K.dim)
    THEN <<>>
    ELSE LET new_extent == cell.extent + 2 ^ axis
             inner_cell ==
                 Cube([cell.orthant EXCEPT ![axis + 1] = CoordWrap(@ - 1)],
                      new_extent)
             outer_cell == Cube(cell.orthant, new_extent)
         IN  (IF BitAnd(cell.extent, 2 ^ axis) = 0
              THEN (IF cell.orthant[axis + 1] # K.min[axis + 1]
                    THEN <<inner_cell>> ELSE <<>>) \o <<outer_cell>>
              ELSE <<>>) \o CofacesAsked(K, cell, axis + 1)

\* The complexes that own a wrapper: the two-dimensional grid one layer
\* thick along the second axis, chains over Z<5>, both wrapped gradings.
CachedComplexes ==
    {CubicalComplex(<<"full", "layer">>, [backing |-> "map", p |-> 5], G) :
        G \in GradingTypes}

CachedStart ==
    /\ kx \in CachedComplexes
    /\ kop = "none"
    /\ kcell = Cube(kx.min, 0)
    /\ kcond = CondTrue
    /\ kchainop = "none"
    /\ kinput = ModZero(kx.mtype)
    /\ kresult = ModZero(kx.mtype)
    /\ lru \in {[c \in CacheIds |->
                    IF c = 1 THEN LRUCache("grading", n)
                    ELSE LRUCache("odd", 1)] : n \in CacheSizes}
    /\ lruhist = [c \in CacheIds |-> NoHistory]
    /\ lrulast = [op |-> "none"]

\* An operator of the complex called on cell: it asks the wrapper for the
\* grade of cell, then, unless that grade lets it return at once, for the
\* grades of the cells asked; the result is computed from the grades the
\* wrapper returned.
CachedCall(name, cell, shortcut(_), asked, Operator(_, _)) ==
    \E first \in {CacheAt(lru, 1, cell)} :
    \E filtered \in {IF shortcut(first.result) THEN <<>> ELSE asked} :
    \E rest \in {CachedCalls(Renumber(first.all), filtered,
                              <<first.result>>)} :
        LET cells == <<cell>> \o filtered
            wrapped == [kx EXCEPT !.grading =
                           CachedGradingWrapper(@, cells, rest.returns)]
        IN  /\ lru' = rest.all
            /\ lrulast' = [op |-> name, cache |-> 1, cells |-> cells,
                           returns |-> rest.returns, before |-> lru]
            /\ kop' = name
            /\ kcell' = cell
            /\ kresult' = Operator(wrapped, cell)
            /\ UNCHANGED <<kx, kcond, kchainop, kinput, lruhist>>
            /\ UNCHANGED <<ringVars, chainVars, linearVars>>

\* complex.grade(cell)
CachedGrade ==
    \E cell \in CellsOf(kx) :
        LET never(g) == FALSE
        IN  CachedCall("grade", cell, never, <<>>, grade)

\* graded_boundary(complex, cell)
CachedGradedBoundary ==
    \E cell \in CellsOf(kx) :
        LET atMinimum(g) == kx.grading.hasMin /\ g = kx.grading.min
        IN  CachedCall("graded_boundary", cell, atMinimum,
                       FacesAsked(kx, cell, 0), graded_boundary)

\* graded_coboundary(complex, cell)
CachedGradedCoboundary ==
    \E cell \in CellsOf(kx) :
        LET atMaximum(g) == kx.grading.hasMax /\ g = kx.grading.max
        IN  CachedCall("graded_coboundary", cell, atMaximum,
                       CofacesAsked(kx, cell, 0), graded_coboundary)

CachedNext ==
    \/ CachedGrade
    \/ CachedGradedBoundary
    \/ CachedGradedCoboundary

(***************************************************************************)
(* The specifications: each component runs with the others idle.           *)
(***************************************************************************)
RingInit == RingStart /\ ChainIdle /\ CubeIdle /\ LinearIdle /\ CacheIdle

SpecRing == RingInit /\ [][RingNext]_vars

ChainInit == ChainStart /\ RingIdle /\ CubeIdle /\ LinearIdle /\ CacheIdle

SpecChain == ChainInit /\ [][ChainNext]_vars

MoveInit == MoveStart /\ RingIdle /\ CubeIdle /\ LinearIdle /\ CacheIdle

SpecMove == MoveInit /\ [][MoveNext]_vars

CubeInit == CubeStart /\ RingIdle /\ ChainIdle /\ LinearIdle /\ CacheIdle

SpecCube == CubeInit /\ [][CubeNext]_vars

LinearInit == LinearStart /\ RingIdle /\ ChainIdle /\ CubeIdle /\ CacheIdle

SpecLinear == LinearInit /\ [][LinearNext]_vars

CacheInit == CacheStart /\ RingIdle /\ ChainIdle /\ CubeIdle /\ LinearIdle

SpecCache == CacheInit /\ [][CacheNext]_vars

CachedInit == CachedStart /\ RingIdle /\ ChainIdle /\ LinearIdle

SpecCached == CachedInit /\ [][CachedNext]_vars

(***************************************************************************)
(* Claims about chains, checked under SpecChain.                           *)
(***************************************************************************)
\* The coefficients the container stores: the mapped values of a map; a set
\* stores none, each member standing for one<R>().
StoredCoefficients(M, ch) ==
    IF M.backing = "set" THEN {one(M.p) : x \in ch}
    ELSE {ch[x] : x \in DOMAIN ch}

C2_InsertAddsCoefficient ==
    clast.op = "insert" =>
        LET M == mtype
            x == clast.cell
            sum == ZPlus(M.p, ModAt(M, clast.pre, x), clast.coef)
        IN  /\ ZEquals(M.p, ModAt(M, chain, x), sum)
            /\ ZEquals(M.p, sum, zero(M.p)) => x \notin ModCells(M, chain)
            /\ \A y \in Basis \ {x} :
                   ZEquals(M.p, ModAt(M, chain, y), ModAt(M, clast.pre, y))

\* C2 witness: a nonzero coefficient was inserted at a cell that already had
\* one, the sum is not zero, and another cell is present.
C2_Witness ==
    /\ mtype.backing = "map" /\ mtype.p > 2
    /\ clast.op = "insert"
    /\ clast.cell \in ModCells(mtype, clast.pre)
    /\ ~ZEquals(mtype.p, clast.coef, zero(mtype.p))
    /\ clast.cell \in ModCells(mtype, chain)
    /\ ModCells(mtype, chain) \ {clast.cell} # {}

\* C11: on a set-backed chain over a binary ring, insert(cell, coef) with
\* coef != zero toggles membership (an absent cell becomes present with
\* coefficient one, a present cell is removed), insert with coef == zero
\* leaves the chain unchanged, and a cell is present exactly when it was
\* inserted with a nonzero coefficient an odd number of times since the
\* last clear.
C11_SetInsertToggles ==
    mtype.backing = "set" =>
        /\ clast.op = "insert" =>
               LET x == clast.cell
                   pre == ModCells(mtype, clast.pre)
                   post == ModCells(mtype, chain)
               IN  IF ZEquals(mtype.p, clast.coef, zero(mtype.p))
                   THEN ModEquals(mtype, chain, clast.pre)
                   ELSE /\ x \notin pre =>
                               /\ post = pre \cup {x}
                               /\ ZEquals(mtype.p, ModAt(mtype, chain, x),
                                          one(mtype.p))
                        /\ x \in pre =>
                               /\ post = pre \ {x}
                               /\ ZEquals(mtype.p, ModAt(mtype, chain, x),
                                          zero(mtype.p))
        /\ \A x \in Basis : x \in ModCells(mtype, chain) <=> x \in cparity

\* C11 witness: a nonzero insert removed a present cell of a set-backed
\* chain while another cell, inserted once, stayed.
C11_Witness ==
    /\ mtype.backing = "set"
    /\ clast.op = "insert"
    /\ ~ZEquals(mtype.p, clast.coef, zero(mtype.p))
    /\ clast.cell \in ModCells(mtype, clast.pre)
    /\ clast.cell \notin ModCells(mtype, chain)
    /\ cparity # {}
    /\ cparity = ModCells(mtype, chain)

\* C12: two chains compare equal exactly when they have the same present
\* cells with the same coefficient on each; inserting a zero coefficient
\* leaves a chain equal to what it was; chains reached by inserting the same
\* terms in a different order compare equal.
C12_EqualityIsSameTerms ==
    /\ \A other \in AllChains(mtype) :
           ModEquals(mtype, chain, other)
               <=> /\ ModCells(mtype, chain) = ModCells(mtype, other)
                   /\ \A x \in Basis :
                          ZEquals(mtype.p, ModAt(mtype, chain, x),
                                  ModAt(mtype, other, x))
    /\ clast.op = "insert" =>
           /\ ZEquals(mtype.p, clast.coef, zero(mtype.p))
                  => ModEquals(mtype, chain, clast.pre)
           /\ \A cell \in Basis, coef \in CoefInputs(mtype.p) :
                  ModEquals(mtype,
                      ModInsert(mtype, chain, cell, coef),
                      ModInsert(mtype,
                                ModInsert(mtype, clast.pre, cell, coef),
                                clast.cell, clast.coef))

\* C13: for all chains a and b over the same basis and ring,
\* a + b - b == a, and a + zero_chain == a.
C13_SumThenDifference ==
    /\ clast.op = "plus_assign" =>
           ModEquals(mtype, ModMinus(mtype, chain, clast.rhs), clast.pre)
    /\ ModEquals(mtype, ModPlus(mtype, chain, ModZero(mtype)), chain)

\* C14: for all chains a and b, a - b == a + (-b), where unary minus is
\* scalar multiplication by -one; and -(-a) == a.
C14_DifferenceIsSumOfNegation ==
    /\ clast.op = "minus_assign" =>
           \A negated \in ModNegate(mtype, clast.rhs) :
               ModEquals(mtype, chain, ModPlus(mtype, clast.pre, negated))
    /\ clast.op = "negate" =>
           \A twice \in ModNegate(mtype, chain) :
               ModEquals(mtype, twice, clast.pre)

\* C15: for every chain a and all ring scalars r and s,
\* (r*s)*a == r*(s*a); 0*a is the empty chain; 1*a == a.
C15_ScalarLaws ==
    /\ clast.op = "times_assign" =>
           \A r \in CoefInputs(mtype.p) :
               \A left \in ModTimes(mtype,
                                    ZTimes(mtype.p, r, clast.coef), clast.pre),
                  right \in ModTimes(mtype, r, chain) :
                   ModEquals(mtype, left, right)
    /\ \A nothing \in ModTimes(mtype, zero(mtype.p), chain) :
           ModEquals(mtype, nothing, ModZero(mtype))
    /\ \A same \in ModTimes(mtype, one(mtype.p), chain) :
           ModEquals(mtype, same, chain)

\* After a *= c the present cells are those of before and each coefficient
\* is c times the one before.
TimesAssignScaled ==
    /\ ModCells(mtype, chain) = ModCells(mtype, clast.pre)
    /\ \A x \in Basis :
           ZEquals(mtype.p, ModAt(mtype, chain, x),
                   ZTimes(mtype.p, clast.coef, ModAt(mtype, clast.pre, x)))

\* No product of the scalar with a present coefficient is zero.
NoZeroProduct ==
    \A x \in ModCells(mtype, clast.pre) :
        ~ZEquals(mtype.p,
                 ZTimes(mtype.p, clast.coef, ModAt(mtype, clast.pre, x)),
                 zero(mtype.p))

\* C16 as stated: for every chain a and every nonzero scalar c, after
\* a *= c each present cell's coefficient is c times its previous
\* coefficient and the set of present cells is unchanged, for every ring
\* the library admits, composite moduli included.
C16_TimesAssignKeepsCells ==
    (clast.op = "times_assign"
        /\ ~ZEquals(mtype.p, clast.coef, zero(mtype.p)))
    => TimesAssignScaled

\* C16 amended: for every chain a and every nonzero scalar c whose product
\* with each present coefficient is nonzero, after a *= c each present
\* cell's coefficient is c times its previous coefficient and the set of
\* present cells is unchanged.
C16_TimesAssignKeepsCellsWithoutZeroProduct ==
    (clast.op = "times_assign"
        /\ ~ZEquals(mtype.p, clast.coef, zero(mtype.p))
        /\ NoZeroProduct)
    => TimesAssignScaled

\* C16 witness: a chain over Z<4> with two present cells was multiplied by a
\* scalar other than zero and one, no product was zero, and a coefficient
\* changed.
C16_Witness ==
    /\ mtype.backing = "map" /\ mtype.p = 4
    /\ clast.op = "times_assign"
    /\ ~ZEquals(mtype.p, clast.coef, zero(mtype.p))
    /\ ~ZEquals(mtype.p, clast.coef, one(mtype.p))
    /\ NoZeroProduct
    /\ Cardinality(ModCells(mtype, clast.pre)) >= 2
    /\ ~ModEquals(mtype, chain, clast.pre)

(***************************************************************************)
(* Claims about the cubical complex, checked under SpecCube.               *)
(***************************************************************************)
\* The axes (numbered from 0) along which a cell has extent.
ExtentAxes(K, cell) ==
    {a \in 0 .. (K.dim - 1) : (cell.extent \div 2 ^ a) % 2 = 1}

\* The sign coef has reached at `axis`: it starts at one and has been
\* negated once for every axis below with extent.
SignAt(K, cell, axis) ==
    IF Cardinality({a \in ExtentAxes(K, cell) : a < axis}) % 2 = 0
    THEN 1 ELSE 0 - 1

\* The cell moved by d along `axis` with the extent given.
Shifted(cell, axis, d, new_extent) ==
    Cube([cell.orthant EXCEPT ![axis + 1] = @ + d], new_extent)

\* The chain ch holds exactly the cells of `terms` (pairs of a cell and an
\* integer coefficient), each with the coefficient reduced modulo p.
HoldsExactly(M, ch, terms) ==
    /\ ModCells(M, ch) = {t[1] : t \in terms}
    /\ \A t \in terms : rep(M.p, ModAt(M, ch, t[1])) = t[2] % M.p

\* The faces the statement of C3 lists for a cell, with their signs.
ExpectedFaces(K, cell, cond) ==
    LET outer ==
            {<<Shifted(cell, a, 1, cell.extent - 2 ^ a), SignAt(K, cell, a)>> :
                a \in {x \in ExtentAxes(K, cell) :
                          cell.orthant[x + 1] # K.max[x + 1]}}
        inner ==
            {<<Shifted(cell, a, 0, cell.extent - 2 ^ a), 0 - SignAt(K, cell, a)>> :
                a \in ExtentAxes(K, cell)}
    IN  {t \in outer \cup inner : CondCall(K, cond, t[1])}

\* C3: for every cell and predicate, boundary_if(cell, predicate) is the
\* chain built by visiting the axes in order with a sign coef starting at
\* one: for each axis a whose extent bit is set, the outer face (coordinate
\* a plus one, bit a cleared) with +coef unless the cell's coordinate equals
\* the maximum orthant's, the inner face (same orthant, bit a cleared) with
\* -coef, each only if the predicate accepts it, coef negated afterwards;
\* axes whose bit is clear contribute nothing and leave coef alone.
C3_BoundaryIfFaces ==
    (kchainop = "none" /\ kop \in {"boundary_if", "boundary"}) =>
        HoldsExactly(kx.mtype, kresult, ExpectedFaces(kx, kcell, kcond))

\* C3 witness: a 2-cell of a 3-dimensional complex over Z<5> with extent
\* along axes 0 and 2, on the maximum edge of axis 0 and not of axis 2, and
\* a predicate that accepted two of its three faces, the outer face along
\* axis 2 among them.
C3_Witness ==
    /\ kop = "boundary_if" /\ kchainop = "none"
    /\ kx.mtype.p = 5 /\ kx.dim = 3
    /\ kcell.extent = 5
    /\ kcell.orthant[1] = kx.max[1] /\ kcell.orthant[3] # kx.max[3]
    /\ Cardinality(kcond.cells) = 2
    /\ Cardinality(ModCells(kx.mtype, kresult)) = 2
    /\ Shifted(kcell, 2, 1, 1) \in ModCells(kx.mtype, kresult)

\* The cofaces the statement of C4 lists for a cell, with their signs.
ExpectedCofaces(K, cell, cond) ==
    LET free == (0 .. (K.dim - 1)) \ ExtentAxes(K, cell)
        inner ==
            {<<Shifted(cell, a, 0 - 1, cell.extent + 2 ^ a), SignAt(K, cell, a)>> :
                a \in {x \in free : cell.orthant[x + 1] # K.min[x + 1]}}
        outer ==
            {<<Shifted(cell, a, 0, cell.extent + 2 ^ a), 0 - SignAt(K, cell, a)>> :
                a \in free}
    IN  {t \in inner \cup outer : CondCall(K, cond, t[1])}

\* C4: for every cell and predicate, coboundary_if(cell, predicate) is the
\* chain built by visiting the axes in order with a sign coef starting at
\* one: for each axis a whose extent bit is clear, the inner coface
\* (coordinate a minus one, bit a set) with +coef unless the cell's
\* coordinate equals the minimum orthant's, and the outer coface (same
\* orthant, bit a set) with -coef, each only if the predicate accepts it;
\* for each axis whose bit is set no coface is produced and coef is negated.
C4_CoboundaryIfCofaces ==
    (kchainop = "none" /\ kop \in {"coboundary_if", "coboundary"}) =>
        HoldsExactly(kx.mtype, kresult, ExpectedCofaces(kx, kcell, kcond))

\* C4 witness: an edge along axis 1 of a 3-dimensional complex over Z<5>,
\* on the minimum edge of axis 0 (a minimum above the origin) and not of
\* axis 2, and a predicate that accepted two of its three cofaces, the
\* inner coface along axis 2 among them.
C4_Witness ==
    /\ kop = "coboundary_if" /\ kchainop = "none"
    /\ kx.mtype.p = 5 /\ kx.dim = 3
    /\ kcell.extent = 2
    /\ kcell.orthant[1] = kx.min[1] /\ kx.min[1] > 0
    /\ kcell.orthant[3] # kx.min[3]
    /\ Cardinality(kcond.cells) = 2
    /\ Cardinality(ModCells(kx.mtype, kresult)) = 2
    /\ Shifted(kcell, 2, 0 - 1, 6) \in ModCells(kx.mtype, kresult)

C6_CoboundaryIsAdjoint ==
    /\ (kchainop = "none" /\ kop = "boundary") =>
           \A b \in CellsOf(kx) :
               ZEquals(kx.mtype.p, ModAt(kx.mtype, kresult, b),
                       ModAt(kx.mtype, coboundary(kx, b), kcell))
    /\ (kchainop = "none" /\ kop = "coboundary") =>
           \A a \in CellsOf(kx) :
               ZEquals(kx.mtype.p, ModAt(kx.mtype, boundary(kx, a), kcell),
                       ModAt(kx.mtype, kresult, a))

\* C6 witness: the boundary over Z<5> of a 2-cell that lies on the maximum
\* edge along one of its axes and on a minimum edge above the origin along
\* the other.
C6_Witness ==
    /\ kop = "boundary" /\ kchainop = "none"
    /\ kx.mtype.p = 5 /\ kx.dim = 2
    /\ kcell.extent = 3
    /\ kcell.orthant[1] = kx.max[1]
    /\ kcell.orthant[2] = kx.min[2] /\ kx.min[2] > 0
    /\ Cardinality(ModCells(kx.mtype, kresult)) = 3

RECURSIVE SumOfProducts(_, _, _, _, _)
\* The integer sum, over the cells x of todo, of the representative of
\* elem[x] times the representative of the coefficient of b in image[x].
SumOfProducts(M, elem, image, b, todo) ==
    IF todo = {} THEN 0
    ELSE LET x == CHOOSE c \in todo : TRUE
         IN  rep(M.p, ModAt(M, elem, x)) * rep(M.p, ModAt(M, image[x], b))
                 + SumOfProducts(M, elem, image, b, todo \ {x})

C19_GradedBoundaryKeepsEqualGrade ==
    (kop = "graded_boundary" /\ kchainop = "none") =>
        LET M == kx.mtype
            current == grade(kx, kcell)
            whole == boundary(kx, kcell)
        IN  /\ \A c \in ModCells(M, kresult) : grade(kx, c) = current
            /\ \A c \in ModCells(M, whole) \cup ModCells(M, kresult) :
                   ZEquals(M.p, ModAt(M, kresult, c),
                           IF grade(kx, c) = current
                           THEN ModAt(M, whole, c) ELSE zero(M.p))

\* C19 witness: under a grading that declares a Minimum, the graded
\* boundary of a cell above the Minimum grade keeps some faces of the
\* boundary and drops others.
C19_Witness ==
    /\ kop = "graded_boundary" /\ kchainop = "none"
    /\ kx.grading.hasMin
    /\ grade(kx, kcell) # kx.grading.min
    /\ ModCells(kx.mtype, kresult) # {}
    /\ ModCells(kx.mtype, kresult) # ModCells(kx.mtype, boundary(kx, kcell))

C21_ClosureCoboundaryKeepsLowerGrade ==
    (kop = "closure_coboundary" /\ kchainop = "none") =>
        LET M == kx.mtype
            current == grade(kx, kcell)
            whole == coboundary(kx, kcell)
        IN  \A c \in ModCells(M, whole) \cup ModCells(M, kresult) :
                ZEquals(M.p, ModAt(M, kresult, c),
                        IF grade(kx, c) <= current
                        THEN ModAt(M, whole, c) ELSE zero(M.p))

\* C21 witness: the closure coboundary of a cell below the Maximum grade
\* keeps some cofaces of the coboundary and drops others.
C21_Witness ==
    /\ kop = "closure_coboundary" /\ kchainop = "none"
    /\ ModCells(kx.mtype, kresult) # {}
    /\ ModCells(kx.mtype, kresult) # ModCells(kx.mtype, coboundary(kx, kcell))

\* The grades of the cells of elem lie between lowest and highest.
GradesBetween(K, elem, lowest, highest) ==
    \A c \in ModCells(K.mtype, elem) :
        lowest <= grade(K, c) /\ grade(K, c) <= highest

\* C27: under a grading that declares a Minimum, gives no face of the cell
\* a grade above the cell's and no cell a grade below the Minimum,
\* graded_boundary (which returns the whole boundary at the Minimum grade)
\* returns the chain that filtering the faces by equal grade returns;
\* likewise graded_coboundary under a grading that declares a Maximum.
C27_ShortCircuitIsFilter ==
    /\ (/\ kop = "graded_boundary" /\ kchainop = "none"
        /\ kx.grading.hasMin
        /\ GradesBetween(kx, boundary(kx, kcell), kx.grading.min,
                         grade(kx, kcell))) =>
           ModEquals(kx.mtype, kresult,
                     boundary_if(kx, kcell, CondGrade(grade(kx, kcell))))
    /\ (/\ kop = "graded_coboundary" /\ kchainop = "none"
        /\ kx.grading.hasMax
        /\ GradesBetween(kx, coboundary(kx, kcell), grade(kx, kcell),
                         kx.grading.max)) =>
           ModEquals(kx.mtype, kresult,
                     coboundary_if(kx, kcell, CondGrade(grade(kx, kcell))))

\* C27 witness: the graded coboundary of a cell of Maximum grade with more
\* than one coface, returned whole.
C27_Witness ==
    /\ kop = "graded_coboundary" /\ kchainop = "none"
    /\ kx.grading.hasMax
    /\ grade(kx, kcell) = kx.grading.max
    /\ Cardinality(ModCells(kx.mtype, kresult)) > 1
    /\ GradesBetween(kx, coboundary(kx, kcell), grade(kx, kcell),
                     kx.grading.max)

\* The number of bits set in an extent.
RECURSIVE BitsSet(_)
BitsSet(extent) ==
    IF extent = 0 THEN 0 ELSE (extent % 2) + BitsSet(extent \div 2)

\* The orthant of c lies within the bounds of K and is no further than one
\* step from the orthant of cell along any axis.
NextTo(K, cell, c) ==
    \A a \in 1 .. K.dim :
        /\ K.min[a] <= c.orthant[a] /\ c.orthant[a] <= K.max[a]
        /\ c.orthant[a] - cell.orthant[a] \in {-1, 0, 1}

\* C29: for every cell within the bounds, every cell of its boundary and
\* of its coboundary has its orthant within the bounds, one step from the
\* cell's at most (no coordinate wraps around), and an extent within the
\* dimension with exactly one bit fewer (boundary) or one bit more
\* (coboundary) than the cell's.
C29_FacesStayInBounds ==
    (kop \in {"boundary", "coboundary"} /\ kchainop = "none") =>
        \A c \in ModCells(kx.mtype, kresult) :
            /\ NextTo(kx, kcell, c)
            /\ c.extent \in 0 .. (2 ^ kx.dim - 1)
            /\ BitsSet(c.extent) =
                   BitsSet(kcell.extent)
                       + (IF kop = "boundary" THEN -1 ELSE 1)

\* C29 witness: the boundary of a cell on the maximum edge of the grid
\* along an axis of its extent, and with its orthant at coordinate zero
\* along another: it has a face and no face beyond the edge.
C29_Witness ==
    /\ kop = "boundary" /\ kchainop = "none"
    /\ ModCells(kx.mtype, kresult) # {}
    /\ \E a \in 1 .. kx.dim :
           /\ kcell.orthant[a] = kx.max[a]
           /\ BitAnd(kcell.extent, 2 ^ (a - 1)) # 0
    /\ \E a \in 1 .. kx.dim : kcell.orthant[a] = 0

(***************************************************************************)
(* Claims about linear_apply, checked under SpecLinear.                    *)
(***************************************************************************)
RECURSIVE PairProducts(_, _, _, _, _)
\* The sum of the representatives of coef * c over the pairs (b, c) of
\* `pairs` from index i on.
PairProducts(M, coef, pairs, b, i) ==
    IF i > Len(pairs) THEN 0
    ELSE (IF pairs[i].first = b
          THEN rep(M.p, ZTimes(M.p, coef, pairs[i].second)) ELSE 0)
             + PairProducts(M, coef, pairs, b, i + 1)

RECURSIVE ElemProducts(_, _, _, _, _)
\* The same sum over every present cell x of elem and the pairs of func(x).
ElemProducts(M, elem, func, b, todo) ==
    IF todo = {} THEN 0
    ELSE LET x == CHOOSE c \in todo : TRUE
         IN  PairProducts(M, ModAt(M, elem, x), func[x], b, 1)
                 + ElemProducts(M, elem, func, b, todo \ {x})

\* C17: for every chain elem and per-cell map f, linear_apply(elem, f) is
\* the chain whose coefficient on each cell b is the ring sum, over every
\* present cell x of elem and every pair (b, c) returned by f(x), of
\* elem[x] * c; pairs with zero product contribute nothing, and elem itself
\* is unchanged.
C17_LinearApplySumsProducts ==
    lcalled.op # "none" =>
        LET M == lmodule
            sum(b) == ElemProducts(M, lelem, lfunc, b, ModCells(M, lelem))
        IN  /\ \A b \in Basis :
                   /\ rep(M.p, ModAt(M, lresult, b)) = sum(b) % M.p
                   /\ b \in ModCells(M, lresult) <=> sum(b) % M.p # 0
            /\ ModEquals(M, lelem, lcalled.elem)

\* C17 witness: over Z<3>, an element with two present cells and a map with
\* a pair of coefficient zero; the nonzero products sent to one target
\* cancel, so it is absent from the result, while another target is present.
C17_Witness ==
    /\ lcalled.op = "lfunc"
    /\ lmodule = [backing |-> "map", p |-> 3]
    /\ Cardinality(ModCells(lmodule, lelem)) >= 2
    /\ \E x \in Basis : \E i \in 1 .. Len(lfunc[x]) :
           ZEquals(3, lfunc[x][i].second, zero(3))
    /\ \E b \in Basis :
           /\ b \notin ModCells(lmodule, lresult)
           /\ ElemProducts(lmodule, lelem, lfunc, b,
                           ModCells(lmodule, lelem)) > 0
    /\ ModCells(lmodule, lresult) # {}

\* C18: applying linear_apply with the identity linear map (each cell maps
\* to the single pair (cell, one)) to any chain returns a chain equal to the
\* input.
C18_IdentityMapReturnsEqualChain ==
    lcalled.op = "identity" => ModEquals(lmodule, lresult, lelem)

(***************************************************************************)
(* Claims about the ring, checked under SpecRing.                          *)
(***************************************************************************)
ZConstructed == zlast.op \in {"ctor_a", "ctor_b"}

ZArithmetic ==
    zlast.op \in {"neg", "plus", "minus", "times",
                  "plus_assign", "minus_assign", "times_assign"}

ZInRange(z) == rep(zp, z) \in 0 .. (zp - 1)

\* The integer operation on representatives that an operator stands for,
\* reduced modulo p (% is the mathematical modulus here).
ZExpected(op, x, y) ==
    CASE op = "neg" -> (0 - x) % zp
      [] op \in {"plus", "plus_assign"} -> (x + y) % zp
      [] op \in {"minus", "minus_assign"} -> (x - y) % zp
      [] op \in {"times", "times_assign"} -> (x * y) % zp

\* C8: for every modulus p > 1 and every integer n (positive, zero or
\* negative, negative multiples of p included) Z<p>(n).rep() lies in
\* [0, p-1], and Z<p>(a) == Z<p>(b) holds exactly when a and b are congruent
\* modulo p.
C8_RepInRangeAndEqualityIsCongruence ==
    /\ ZConstructed => ZInRange(zlast.x)
    /\ zlast.op = "eq" => (zlast.eq <=> (za.n % zp = zb.n % zp))

\* C9: for operands whose representatives lie in [0, p-1], the result of
\* -a, a + b, a - b, a * b, +=, -= and *= has the representative of the
\* integer operation reduced modulo p, lies in [0, p-1], and no integer
\* computed on the way exceeds p * p.
C9_ArithmeticIsModular ==
    (ZArithmetic /\ ZInRange(zlast.x) /\ ZInRange(zlast.y)) =>
        /\ rep(zp, zr) = ZExpected(zlast.op, rep(zp, zlast.x), rep(zp, zlast.y))
        /\ ZInRange(zr)
        /\ \A i \in DOMAIN zlast.steps : zlast.steps[i] <= zp * zp

\* C9 witness: a subtraction of a larger representative from a smaller one
\* in a ring with more than two elements (the sum is reduced after p - rhs
\* is added).
C9_Witness ==
    /\ zp > 2
    /\ zlast.op = "minus_assign"
    /\ ZInRange(zlast.x) /\ ZInRange(zlast.y)
    /\ rep(zp, zlast.x) < rep(zp, zlast.y)
    /\ Len(zlast.steps) = 2

\* C10: Z<2> agrees with arithmetic modulo 2 on every input: construction
\* keeps the parity of n (negative n included), addition and subtraction are
\* the XOR of the stored bits, multiplication is their AND, negation returns
\* the value unchanged, and one + one == zero.
C10_Z2IsArithmeticModuloTwo ==
    zp = 2 =>
        LET x == rep(2, zlast.x)
            y == rep(2, zlast.y)
            r == rep(2, zr)
        IN  /\ ZConstructed => x = zlast.n % 2
            /\ zlast.op \in {"plus", "plus_assign", "minus", "minus_assign"}
                 => r = (x + y) % 2
            /\ zlast.op \in {"times", "times_assign"} => r = x * y
            /\ zlast.op = "neg" => zr = zlast.x
            /\ ZEquals(2, ZPlus(2, one(2), one(2)), zero(2))

\* C10 witness: one + one has been computed in Z<2> from objects built from
\* a negative odd integer.
C10_Witness ==
    /\ zp = 2
    /\ zlast.op = "plus"
    /\ za.n < 0 /\ zb.n < 0
    /\ rep(2, zlast.x) = 1 /\ rep(2, zlast.y) = 1
    /\ rep(2, zr) = 0

(***************************************************************************)
(* Claims about LRUCache, checked under SpecCache.                         *)
(***************************************************************************)
\* The keys a cache holds, by its map.
KeysOf(cache) == DOMAIN cache.map

\* The stored pairs of a cache in the order of its list.
Pairs(cache) ==
    [i \in 1..Len(cache.list) |-> <<cache.list[i].key, cache.list[i].value>>]

\* What can be observed of a cache whatever the addresses of its nodes: the
\* pairs in list order, the capacity, the function, and for every key of
\* the map the place in the cache's own list its iterator refers to (0 when
\* it refers elsewhere).
View(cache) ==
    [pairs |-> Pairs(cache), max |-> cache.max, fn |-> cache.fn,
     refs |-> [k \in KeysOf(cache) |-> Position(cache.list, cache.map[k])]]

\* The last operation was c[key] and returned.
Returned == lrulast.op = "access" /\ lrulast.raised = "nothing"

\* The cache the last operation was called on, before the call.
Was == lrulast.before[lrulast.cache]

\* The last operation was a miss on a cache holding max_size entries.
MissWhenFull ==
    /\ Returned
    /\ ~contains(Was, lrulast.key)
    /\ size(Was) = max_size(Was)

SameObject(c) ==
    ~(lrulast.op \in {"copy-construct", "move-construct"} /\ lrulast.cache = c)

Assigned(c) ==
    lrulast.op \in {"copy-assign", "move-assign"} /\ lrulast.cache = c

SizeWithinCapacity == \A c \in CacheIds : size(lru[c]) <= max_size(lru[c])

\* C23 as stated: size() never exceeds max_size(), and no operation changes
\* the max_size() of a cache.
C23_CapacityNeverChanges ==
    /\ SizeWithinCapacity
    /\ lrulast.op # "none" =>
           \A c \in CacheIds :
               SameObject(c) =>
                   max_size(lru[c]) = max_size(lrulast.before[c])

\* C23: size() never exceeds max_size(); an access, a query, and a copy or
\* a move out of a cache leave its max_size() alone, while an assignment to
\* a cache gives it the max_size() of the cache assigned from.
C23_CapacityChangesOnlyByAssignment ==
    /\ SizeWithinCapacity
    /\ lrulast.op # "none" =>
           \A c \in CacheIds :
               SameObject(c) =>
                   max_size(lru[c]) =
                       IF Assigned(c)
                       THEN max_size(lrulast.before[lrulast.other])
                       ELSE max_size(lrulast.before[c])

\* A cache holding two entries was assigned a cache of capacity one and
\* holds as many entries as its new capacity allows.
C23_Witness ==
    /\ Assigned(lrulast.cache)
    /\ size(Was) = 2
    /\ max_size(lru[lrulast.cache]) = 1
    /\ size(lru[lrulast.cache]) = 1

C25_CopyIsEqualAndIndependent ==
    /\ lrulast.op \in {"copy-construct", "copy-assign"} =>
           /\ View(lru[lrulast.cache]) = View(lrulast.before[lrulast.other])
           /\ View(lru[lrulast.other]) = View(lrulast.before[lrulast.other])
           /\ lruhist[lrulast.cache] = lrulast.histbefore[lrulast.other]
    /\ lrulast.op = "access" =>
           \A c \in CacheIds \ {lrulast.cache} :
               /\ View(lru[c]) = View(lrulast.before[c])
               /\ lruhist[c] = lrulast.histbefore[c]

\* Two caches held the same two entries in the same order, as after a copy;
\* an access to one evicted an entry that the other still holds.
C25_Witness ==
    /\ MissWhenFull
    /\ \E other \in CacheIds \ {lrulast.cache} :
           /\ size(Was) = 2
           /\ Pairs(lrulast.before[other]) = Pairs(Was)
           /\ Pairs(lru[other]) = Pairs(Was)
           /\ KeysOf(lru[other]) # KeysOf(lru[lrulast.cache])

ThroughWrapper ==
    lrulast.op \in {"grade", "graded_boundary", "graded_coboundary"}

\* C26: whatever calls came before, every call of the wrapper returns the
\* grade the wrapped grading gives the cell, and grade, graded_boundary
\* and graded_coboundary of a complex owning the wrapper return what they
\* return for the complex owning the wrapped grading itself.
C26_CachedGradingReturnsGrade ==
    ThroughWrapper =>
        /\ \A i \in 1..Len(lrulast.cells) :
               lrulast.returns[i] = grade(kx, lrulast.cells[i])
        /\ kop = "grade" => kresult = grade(kx, kcell)
        /\ kop = "graded_boundary" => kresult = graded_boundary(kx, kcell)
        /\ kop = "graded_coboundary" =>
               kresult = graded_coboundary(kx, kcell)

\* A graded boundary that drops a face, computed with grades of which one
\* came from the cache (a hit) and one was computed after an eviction from
\* a full cache.
C26_Witness ==
    /\ lrulast.op = "graded_boundary"
    /\ kresult # boundary(kx, kcell)
    /\ kresult # ModZero(kx.mtype)
    /\ size(lrulast.before[1]) = max_size(lrulast.before[1])
    /\ \E i, j \in 1..Len(lrulast.cells) :
           /\ contains(lrulast.before[1], lrulast.cells[i])
           /\ ~contains(lrulast.before[1], lrulast.cells[j])
    /\ \E x \in KeysOf(lrulast.before[1]) : ~contains(lru[1], x)


(***************************************************************************)
(* The move overloads of += and -= (SpecMove).                             *)
(***************************************************************************)
\* C28: for map-backed and set-backed chains, lhs += std::move(rhs) and
\* lhs -= std::move(rhs) leave lhs equal to the result of the copying
\* lhs += rhs and lhs -= rhs on the same operands, and leave rhs empty.
C28_MoveMatchesCopy ==
    /\ clast.op = "move_plus_assign" =>
           /\ ModEquals(mtype, chain,
                        ModPlusAssign(mtype, clast.pre, clast.arg))
           /\ ModCells(mtype, clast.rhs) = {}
    /\ clast.op = "move_minus_assign" =>
           /\ ModEquals(mtype, chain,
                        ModMinusAssign(mtype, clast.pre, clast.arg))
           /\ ModCells(mtype, clast.rhs) = {}

\* A map-backed element over a ring with -1 # 1 was subtracted by move: one
\* cell of rhs cancelled against lhs, another was new to lhs, and rhs, which
\* held both, is empty.
C28_Witness ==
    /\ clast.op = "move_minus_assign"
    /\ mtype.backing = "map"
    /\ ~ZEquals(mtype.p, ZNegate(mtype.p, one(mtype.p)), one(mtype.p))
    /\ \E cell \in ModCells(mtype, clast.arg) :
           cell \in ModCells(mtype, clast.pre) /\ cell \notin ModCells(mtype, chain)
    /\ \E cell \in ModCells(mtype, clast.arg) :
           cell \notin ModCells(mtype, clast.pre) /\ cell \in ModCells(mtype, chain)
    /\ ModCells(mtype, clast.rhs) = {}

=============================================================================
